---- MODULE Spec2Model ----
(***************************************************************************)
(* Model of the transcript analysis orchestration of callpulse             *)
(* (sentsumapp/utils/analyzer.py, analyzer_gemini.py, prompts.py):         *)
(* the MongoDB cache adapter, the single-transcript analyzer with its      *)
(* retry loop, and the joblib batch orchestrator; and of its neighbours,   *)
(* the transcript fetcher (utils/fetcher.py) and the consumers of the      *)
(* batch result (api_server_v2.py, streamlit_app_gemini.py).               *)
(*                                                                         *)
(* Python strings are sequences of one-character strings, so that string   *)
(* formatting, str.replace and prefixes are computed, not assumed.         *)
(* Python values are records [t, s]: t = "str" with the characters in s,   *)
(* or t = "none".                                                          *)
(***************************************************************************)
EXTENDS Integers, Sequences, FiniteSets, TLC

VARIABLES
  configured,            \* self.collection is not None
  cache,                 \* the documents of the collection, in insertion order
  cache0,                \* the collection as it was when analyze_transcripts was called
  transcript_data_list,  \* argument of analyze_transcripts
  prompt_type,           \* argument of analyze_transcripts
  n_jobs,                \* argument of analyze_transcripts
  bpc,                   \* position of the analyze_transcripts call
  pc,                    \* position of each analyze_single_transcript call
  attempt,               \* loop variable of the retry loop, per call
  hist,                  \* outcomes of the provider calls made so far, per call
  sleeps,                \* durations passed to time.sleep so far, per call
  res,                   \* the tuple returned by each call
  seen,                  \* what get_from_mongodb returned to the call (cached_result)
  reads,                 \* get_from_mongodb calls, per call
  writes,                \* save_to_mongodb calls, per call
  provider_calls,        \* provider requests issued during the batch
  cache_ops,             \* cache adapter calls made during the batch
  mapping,               \* the dict returned by analyze_transcripts
  lastGet,               \* the last direct get_from_mongodb call and what it returned
  lastSave,              \* the last direct save_to_mongodb call: what it returned and stored
  backend,               \* the module of the analyzer: "openai" (analyzer.py) or
                         \* "gemini" (analyzer_gemini.py)
  provider,              \* whether the process has a provider key or client: the
                         \* openai_client given to analyzer.py, GEMINI_API_KEY of
                         \* the dashboard
  first,                 \* what an earlier analysis of the same transcript and kind
                         \* did, when the current call is a second one
  response,              \* what the last consumer request got and showed
  session,               \* st.session_state of the dashboard
  ninja,                 \* whether NINJA_API_KEY is set: the dashboard has a fetcher
  analyses,              \* analyze_transcripts calls the dashboard has made
  files,                 \* the names of the transcript files in data_dir
  content,               \* what each of these files holds
  lastTranscript,        \* the last direct get_transcript call and what it returned
  fpc,                   \* position of the get_last_n_quarters call
  f_ticker,              \* its ticker, after ticker.upper()
  f_n,                   \* its n
  now,                   \* year and quarter of datetime.now() at the call
  attempts,              \* its local attempts
  quarters_found,        \* its local quarters_found
  results,               \* its local results
  log                    \* the get_transcript calls it has made, in order

vars == <<configured, cache, cache0, transcript_data_list, prompt_type, n_jobs,
          bpc, pc, attempt, hist, sleeps, res, seen, reads, writes,
          provider_calls, cache_ops, mapping, lastGet, lastSave, backend, provider,
          first, response, session, ninja, analyses, files, content, lastTranscript, fpc, f_ticker, f_n, now, attempts, quarters_found,
          results, log>>

(***************************************************************************)
(* Bounds of the model.                                                    *)
(***************************************************************************)
MaxBatch == 2     \* longest transcript_data_list
MaxJobs == 2      \* largest n_jobs
MaxDocs == 2      \* documents saved by direct save_to_mongodb calls
MaxN == 2         \* largest n of get_last_n_quarters
MaxFiles == 1     \* transcript files written by direct get_transcript calls
MaxKept == 2      \* transcript files kept in data_dir by repeated get_transcript calls
MaxAnalyses == 1  \* analyze_transcripts calls made in one dashboard session

(***************************************************************************)
(* Python values and strings.                                              *)
(***************************************************************************)
None == [t |-> "none", s |-> <<>>]
Str(s) == [t |-> "str", s |-> s]

\* A dict, as json.loads returns it: d maps the keys present to their values.
Dict(d) == [t |-> "dict", s |-> <<>>, d |-> d]

\* bool(v) as used by "if cached_result:" -- None, "" and {} are false.
Truthy(v) ==
  \/ v.t = "str" /\ v.s # <<>>
  \/ v.t = "dict" /\ DOMAIN v.d # {}

DigitChars == <<"0", "1", "2", "3", "4", "5", "6", "7", "8", "9">>

\* str(n) of a non-negative int, as an f-string formats it.
RECURSIVE Decimal(_)
Decimal(n) ==
  IF n < 10 THEN <<DigitChars[n + 1]>>
  ELSE Decimal(n \div 10) \o <<DigitChars[(n % 10) + 1]>>

HasPrefix(s, p) == Len(s) >= Len(p) /\ SubSeq(s, 1, Len(p)) = p
HasSuffix(s, p) == Len(s) >= Len(p) /\ SubSeq(s, Len(s) - Len(p) + 1, Len(s)) = p

LowerChars == <<"a", "b", "c", "d", "e", "f", "g", "h", "i", "j", "k", "l", "m",
                "n", "o", "p", "q", "r", "s", "t", "u", "v", "w", "x", "y", "z">>
UpperChars == <<"A", "B", "C", "D", "E", "F", "G", "H", "I", "J", "K", "L", "M",
                "N", "O", "P", "Q", "R", "S", "T", "U", "V", "W", "X", "Y", "Z">>

\* str.upper(): lower-case letters become upper-case, other characters stay.
Upper(s) ==
  [k \in 1..Len(s) |->
     IF \E n \in 1..26 : LowerChars[n] = s[k]
       THEN UpperChars[CHOOSE n \in 1..26 : LowerChars[n] = s[k]]
       ELSE s[k]]

RECURSIVE SumSeq(_)
SumSeq(q) == IF q = <<>> THEN 0 ELSE Head(q) + SumSeq(Tail(q))

(***************************************************************************)
(* Inputs.                                                                 *)
(***************************************************************************)
BRK_dot == <<"B", "R", "K", ".", "B">>
BRK_hyp == <<"B", "R", "K", "-", "B">>

Tickers == {BRK_dot, BRK_hyp}

\* Transcript records: two that differ only by period versus hyphen, and one
\* for another quarter.
Records ==
  { [ticker |-> BRK_dot, year |-> 2024, quarter |-> 1],
    [ticker |-> BRK_hyp, year |-> 2024, quarter |-> 1],
    [ticker |-> BRK_hyp, year |-> 2024, quarter |-> 2] }

\* The same ticker as BRK_hyp in lower case.
BRK_low == <<"b", "r", "k", "-", "b">>

\* Records handed to analyze_single_transcript directly: those above and one
\* whose ticker differs from another's only in letter case.
SingleRecords == Records \cup {[ticker |-> BRK_low, year |-> 2024, quarter |-> 1]}

PromptTypes == {"summary", "topics", "sentiment", "bogus"}

RECURSIVE SeqsUpTo(_, _)
SeqsUpTo(S, n) ==
  IF n = 0 THEN {<<>>}
  ELSE LET shorter == SeqsUpTo(S, n - 1)
       IN  shorter \cup {Append(q, x) : q \in {r \in shorter : Len(r) = n - 1}, x \in S}

\* What one provider request can do: raise, return a text, return "".
Outcomes == {"fail", "text", "empty"}

\* The message of the first exception, whichever request raised.
MsgOfFirst(k) == <<"e", "1">>

\* str(e) of the exception raised by the k-th request of a call.
Msg(k) == <<"e">> \o Decimal(k)

\* The text returned by the k-th request of the call for list item i.
Text(i, k) == <<"t">> \o Decimal(i) \o Decimal(k)

OutcomeValue(o, i, k) == IF o = "text" THEN Str(Text(i, k)) ELSE Str(<<>>)

\* Values saved directly: a text and the empty string.
SeedValues == {Str(<<"c">>), Str(<<>>)}

\* analysis_type of the direct adapter calls: two tags of recognised kinds
\* and the tag of an unrecognised one.
DirectTags == {<<"SUMMARY">>, <<"SENTIMENT">>, <<"UNKNOWN">>}

(***************************************************************************)
(* Cache adapter: get_from_mongodb / save_to_mongodb.                      *)
(***************************************************************************)
\* ticker.replace(".", "-")
Replace(ticker) ==
  [k \in 1..Len(ticker) |-> IF ticker[k] = "." THEN "-" ELSE ticker[k]]

CacheKeyNoQuarter(ticker, year, quarter, analysis_type) ==
  Replace(ticker) \o <<"_">> \o Decimal(year) \o <<"_">> \o analysis_type

CacheKeyNoReplace(ticker, year, quarter, analysis_type) ==
  ticker \o <<"_">> \o Decimal(year) \o <<"_", "Q">> \o Decimal(quarter)
    \o <<"_">> \o analysis_type

\* f"{ticker}_{year}_Q{quarter}_{analysis_type}" after the replace
CacheKey(ticker, year, quarter, analysis_type) ==
  Replace(ticker) \o <<"_">> \o Decimal(year) \o <<"_", "Q">> \o Decimal(quarter)
    \o <<"_">> \o analysis_type

FindLast(c, key) ==
  LET hits == {k \in 1..Len(c) : c[k].key = key}
  IN  IF hits = {} THEN 0 ELSE CHOOSE k \in hits : \A m \in hits : k >= m

\* collection.find_one({key: {"$exists": True}}): the first document, in
\* insertion order, that has the field; 0 when there is none.
FindOne(c, key) ==
  LET hits == {k \in 1..Len(c) : c[k].key = key}
  IN  IF hits = {} THEN 0 ELSE CHOOSE k \in hits : \A m \in hits : k <= m

Raised == [t |-> "raised", s |-> <<>>]

GetFromMongodbPropagating(c, ticker, year, quarter, analysis_type, fault) ==
  IF ~configured THEN None
  ELSE IF fault THEN Raised
  ELSE LET k == FindOne(c, CacheKey(ticker, year, quarter, analysis_type))
       IN  IF k = 0 THEN None ELSE c[k].val

\* get_from_mongodb: None without a collection, on an exception, on no match.
GetFromMongodb(c, ticker, year, quarter, analysis_type, fault) ==
  IF ~configured THEN None
  ELSE IF fault THEN None
  ELSE LET k == FindOne(c, CacheKey(ticker, year, quarter, analysis_type))
       IN  IF k = 0 THEN None ELSE c[k].val

SaveToMongodbUnguarded(c, ticker, year, quarter, analysis_type, data, fault) ==
  IF fault THEN c
  ELSE Append(c, [key |-> CacheKey(ticker, year, quarter, analysis_type),
                  val |-> data,
                  by  |-> <<ticker, year, quarter, analysis_type>>])

\* A save that replaces the document stored under the key, if there is one.
SaveToMongodbReplacing(c, ticker, year, quarter, analysis_type, data, fault) ==
  LET doc == [key |-> CacheKey(ticker, year, quarter, analysis_type),
              val |-> data,
              by  |-> <<ticker, year, quarter, analysis_type>>]
      k == FindOne(c, doc.key)
  IN  IF ~configured \/ fault THEN c
      ELSE IF k = 0 THEN Append(c, doc)
      ELSE [c EXCEPT ![k] = doc]

\* A save that inserts the document twice.
SaveToMongodbTwice(c, ticker, year, quarter, analysis_type, data, fault) ==
  IF ~configured \/ fault THEN c
  ELSE LET doc == [key |-> CacheKey(ticker, year, quarter, analysis_type),
                   val |-> data,
                   by  |-> <<ticker, year, quarter, analysis_type>>]
       IN  c \o <<doc, doc>>

\* save_to_mongodb: insert_one of {key: data}; nothing without a collection or
\* on an exception.  "by" remembers the arguments of the call.
SaveToMongodb(c, ticker, year, quarter, analysis_type, data, fault) ==
  IF ~configured \/ fault THEN c
  ELSE Append(c, [key |-> CacheKey(ticker, year, quarter, analysis_type),
                  val |-> data,
                  by  |-> <<ticker, year, quarter, analysis_type>>])

\* What save_to_mongodb returns: False without a collection or on an
\* exception, True after insert_one.
SaveReturns(fault) == configured /\ ~fault

(***************************************************************************)
(* Single-transcript analyzer.                                             *)
(***************************************************************************)
Tag_SUMMARY == <<"SUMMARY">>
Tag_TOPIC == <<"TOPIC">>
Tag_SENTIMENT == <<"SENTIMENT">>
Tag_UNKNOWN == <<"UNKNOWN">>
Tags == {Tag_SUMMARY, Tag_TOPIC, Tag_SENTIMENT, Tag_UNKNOWN}

\* f"{ticker}_{year}_Q{quarter}"
TranscriptId(td) ==
  td.ticker \o <<"_">> \o Decimal(td.year) \o <<"_", "Q">> \o Decimal(td.quarter)

\* {...}.get(prompt_type, "UNKNOWN")
\* One tag for every kind.
MongoTagShared(pt) == Tag_SUMMARY

MongoTag(pt) ==
  CASE pt = "summary" -> Tag_SUMMARY
    [] pt = "topics" -> Tag_TOPIC
    [] pt = "sentiment" -> Tag_SENTIMENT
    [] OTHER -> Tag_UNKNOWN

\* get_system_prompt / get_user_prompt return for these and raise ValueError otherwise.
ValidPromptType(pt) == pt \in {"summary", "topics", "sentiment"}

max_retries == 3

ErrorPrefix == <<"E", "R", "R", "O", "R", ":", " ">>

SentinelNoPrefix(msg) == Str(msg)

\* f"ERROR: {str(e)}"
Sentinel(msg) == Str(ErrorPrefix \o msg)

ReturnedUnlessSaveFailed(result, saved) ==
  IF saved THEN result ELSE Sentinel(<<"s", "a", "v", "e">>)

\* "return transcript_id, result" after the save: the value of the provider
\* request, whatever save_to_mongodb returned.
Returned(result, saved) == result

RECURSIVE Pow2(_)
Pow2(n) == IF n = 0 THEN 1 ELSE 2 * Pow2(n - 1)

BackoffShifted(a) == Pow2(a + 1)

BackoffConstant(a) == 1

\* A backoff that only analyzer.py doubles.
BackoffOpenAIOnly(a) == IF backend = "gemini" THEN 1 ELSE Pow2(a)

\* sleep_time = 2 ** attempt
Backoff(a) == Pow2(a)

Idx == 1..Len(transcript_data_list)

KeyOf(i) ==
  CacheKey(transcript_data_list[i].ticker, transcript_data_list[i].year,
           transcript_data_list[i].quarter, MongoTag(prompt_type))

NoRes == [id |-> <<>>, val |-> None]
EmptyMap == [x \in {} |-> None]

(***************************************************************************)
(* Batch orchestrator: joblib.Parallel(n_jobs, backend="threading").       *)
(***************************************************************************)
\* The calls that are not asleep: a sleeping call would give up its thread.
ActiveAwake == {i \in Idx : pc[i] \in {"started", "calling"}}

Active == {i \in Idx : pc[i] \in {"started", "calling", "sleeping"}}

FreeSlotNever == FALSE

FreeSlotAlways == TRUE

\* a worker thread of the pool is idle
FreeSlot == Cardinality(Active) < n_jobs

IsEmptyNever(l) == FALSE

\* "not transcript_data_list"
IsEmpty(l) == l = <<>>

ToDictNoErrors(r) ==
  LET keep == {i \in DOMAIN r : ~HasPrefix(r[i].val.s, <<"E", "R", "R", "O", "R", ":">>)}
      ids == {r[i].id : i \in keep}
  IN  [id \in ids |->
         r[CHOOSE i \in keep : r[i].id = id /\ \A j \in keep : r[j].id = id => j <= i].val]

\* dict(results): a later tuple with the same key replaces an earlier one
ToDict(r) ==
  LET ids == {r[i].id : i \in DOMAIN r}
  IN  [id \in ids |->
         r[CHOOSE i \in DOMAIN r : r[i].id = id /\ \A j \in DOMAIN r : r[j].id = id => j <= i].val]

\* st.session_state after the "Session state initialization" of the
\* dashboard: fetched_data is None, written <<>>, or the fetched list l,
\* written <<l>>; timing_data is kept as the set of its keys.
NoSession ==
  [fetched_data |-> <<>>, summaries |-> EmptyMap, topics |-> EmptyMap,
   sentiments |-> EmptyMap, timing_data |-> {}]

(***************************************************************************)
(* Initial state: an analyzer constructed with or without a MongoDB URI,   *)
(* an empty collection, and no call made yet.                              *)
(***************************************************************************)
InitAll(b, p, k) ==
  /\ backend = b
  /\ ninja = k
  /\ session = NoSession
  /\ analyses = 0
  /\ provider = p
  /\ first = <<>>
  /\ response = <<>>
  /\ files = {}
  /\ content = <<>>
  /\ lastTranscript = <<>>
  /\ fpc = "idle"
  /\ f_ticker = <<>>
  /\ f_n = 0
  /\ now = [year |-> 2024, quarter |-> 1]
  /\ attempts = 0
  /\ quarters_found = 0
  /\ results = <<>>
  /\ log = <<>>
  /\ configured \in BOOLEAN
  /\ cache = <<>>
  /\ cache0 = <<>>
  /\ transcript_data_list = <<>>
  /\ prompt_type = "summary"
  /\ n_jobs = 1
  /\ bpc = "idle"
  /\ pc = <<>>
  /\ attempt = <<>>
  /\ hist = <<>>
  /\ sleeps = <<>>
  /\ res = <<>>
  /\ seen = <<>>
  /\ reads = <<>>
  /\ writes = <<>>
  /\ provider_calls = 0
  /\ cache_ops = 0
  /\ mapping = EmptyMap
  /\ lastGet = <<>>
  /\ lastSave = <<>>

\* A process that has its transcript API key.
InitOf(b, p) == InitAll(b, p, TRUE)

\* An analyzer of module b that has its provider client.
InitWith(b) == InitOf(b, TRUE)

\* The analyzer of analyzer.py; in the free-text kinds analyzer_gemini.py
\* differs only in the provider it calls.
Init == InitWith("openai")

\* Variables that no action of the adapter and of the free-text analyzer changes.
fetchVars == <<files, content, lastTranscript, fpc, f_ticker, f_n, now, attempts,
               quarters_found, results, log>>

\* Variables of the dashboard session.
dashVars == <<session, ninja, analyses>>

restVars == <<backend, provider, first, response, fetchVars, dashVars>>

callVars == <<transcript_data_list, prompt_type, n_jobs, bpc, pc, attempt, hist, sleeps,
              res, seen, reads, writes, provider_calls, cache_ops, mapping>>

\* A direct call of save_to_mongodb.
SaveDirect ==
  /\ bpc = "idle"
  /\ Len(cache) < MaxDocs
  /\ \E r \in Records, tag \in DirectTags, v \in SeedValues,
        fault \in BOOLEAN :
       /\ cache' = SaveToMongodb(cache, r.ticker, r.year, r.quarter, tag, v, fault)
       /\ lastSave' = <<[ret |-> SaveReturns(fault), docs |-> Len(cache)]>>
  /\ UNCHANGED <<configured, cache0, lastGet>>
  /\ UNCHANGED callVars
  /\ UNCHANGED restVars

\* A direct call of get_from_mongodb.
GetDirect ==
  /\ bpc = "idle"
  /\ \E r \in Records, tag \in DirectTags, fault \in BOOLEAN :
       lastGet' = <<[ticker |-> r.ticker, year |-> r.year, quarter |-> r.quarter,
                     tag |-> tag, fault |-> fault, docs |-> Len(cache),
                     ret |-> GetFromMongodb(cache, r.ticker, r.year, r.quarter, tag, fault)]>>
  /\ UNCHANGED <<configured, cache, cache0, lastSave>>
  /\ UNCHANGED callVars
  /\ UNCHANGED restVars

\* The per-call state of n calls of analyze_single_transcript, each in position p.
StartCalls(n, p) ==
  /\ pc' = [i \in 1..n |-> p]
  /\ attempt' = [i \in 1..n |-> 0]
  /\ hist' = [i \in 1..n |-> <<>>]
  /\ sleeps' = [i \in 1..n |-> <<>>]
  /\ res' = [i \in 1..n |-> NoRes]
  /\ seen' = [i \in 1..n |-> None]
  /\ reads' = [i \in 1..n |-> 0]
  /\ writes' = [i \in 1..n |-> 0]

\* analyze_single_transcript(td, pt) is called directly.
CallSingle ==
  /\ bpc = "idle"
  /\ \E td \in SingleRecords, pt \in PromptTypes :
       /\ transcript_data_list' = <<td>>
       /\ prompt_type' = pt
  /\ bpc' = "single"
  /\ cache0' = cache
  /\ StartCalls(1, "started")
  /\ UNCHANGED <<configured, cache, n_jobs, provider_calls, cache_ops, mapping, lastGet, lastSave>>
  /\ UNCHANGED restVars

\* analyze_single_transcript is called again with the same arguments after
\* the first call returned; what the first call did is kept in first.
CallSingleAgain ==
  /\ bpc = "single"
  /\ first = <<>>
  /\ pc = <<"done">>
  /\ first' = <<[val |-> res[1].val, hist |-> hist[1], seen |-> seen[1],
                 writes |-> writes[1], before |-> cache0]>>
  /\ cache0' = cache
  /\ StartCalls(1, "started")
  /\ provider_calls' = 0
  /\ cache_ops' = 0
  /\ UNCHANGED <<configured, cache, transcript_data_list, prompt_type, n_jobs, bpc,
                 mapping, lastGet, lastSave>>
  /\ UNCHANGED <<backend, provider, response, fetchVars, dashVars>>

\* analyze_transcripts(l, pt, n) is called: an empty list returns {} at once,
\* otherwise the pool starts.
Call ==
  /\ bpc = "idle"
  /\ \E l \in SeqsUpTo(Records, MaxBatch), pt \in PromptTypes, n \in 1..MaxJobs :
       /\ transcript_data_list' = l
       /\ prompt_type' = pt
       /\ n_jobs' = n
       /\ StartCalls(Len(l), "queued")
       /\ bpc' = IF IsEmpty(l) THEN "returned" ELSE "running"
  /\ cache0' = cache
  /\ mapping' = EmptyMap
  /\ UNCHANGED <<configured, cache, provider_calls, cache_ops, lastGet, lastSave>>
  /\ UNCHANGED restVars

\* A start of the call that writes the ticker back into the record with its
\* period replaced.
DispatchNormalising(i) ==
  /\ bpc = "running"
  /\ pc[i] = "queued"
  /\ \A j \in Idx : j < i => pc[j] # "queued"
  /\ \A j \in Idx : pc[j] # "raised"
  /\ FreeSlot
  /\ pc' = [pc EXCEPT ![i] = "started"]
  /\ transcript_data_list' = [transcript_data_list EXCEPT ![i].ticker = Replace(@)]
  /\ UNCHANGED <<configured, cache, cache0, prompt_type, n_jobs,
                 bpc, attempt, hist, sleeps, res, seen, reads, writes, provider_calls,
                 cache_ops, mapping, lastGet, lastSave>>
  /\ UNCHANGED restVars

\* A free worker thread takes the next item of the list.
Dispatch(i) ==
  /\ bpc = "running"
  /\ pc[i] = "queued"
  /\ \A j \in Idx : j < i => pc[j] # "queued"
  /\ \A j \in Idx : pc[j] # "raised"
  /\ FreeSlot
  /\ pc' = [pc EXCEPT ![i] = "started"]
  /\ UNCHANGED <<configured, cache, cache0, transcript_data_list, prompt_type, n_jobs,
                 bpc, attempt, hist, sleeps, res, seen, reads, writes, provider_calls,
                 cache_ops, mapping, lastGet, lastSave>>
  /\ UNCHANGED restVars

\* analyze_single_transcript up to the first provider request: the cache
\* lookup, the prompts, and the request of attempt 0.
Lookup(i) ==
  /\ bpc \in {"running", "single"}
  /\ pc[i] = "started"
  /\ \E fault \in (IF configured THEN BOOLEAN ELSE {FALSE}) :
       LET td == transcript_data_list[i]
           cached_result == GetFromMongodb(cache, td.ticker, td.year, td.quarter,
                                           MongoTag(prompt_type), fault)
       IN  /\ seen' = [seen EXCEPT ![i] = cached_result]
           /\ IF configured /\ Truthy(cached_result)
                THEN /\ pc' = [pc EXCEPT ![i] = "done"]
                     /\ res' = [res EXCEPT ![i] = [id |-> TranscriptId(td),
                                                   val |-> cached_result]]
                     /\ UNCHANGED provider_calls
                ELSE IF ~ValidPromptType(prompt_type)
                THEN /\ pc' = [pc EXCEPT ![i] = "raised"]
                     /\ UNCHANGED <<res, provider_calls>>
                ELSE /\ pc' = [pc EXCEPT ![i] = "calling"]
                     /\ provider_calls' = provider_calls + 1
                     /\ UNCHANGED res
  /\ reads' = [reads EXCEPT ![i] = IF configured THEN 1 ELSE 0]
  /\ cache_ops' = cache_ops + (IF configured THEN 1 ELSE 0)
  /\ UNCHANGED <<configured, cache, cache0, transcript_data_list, prompt_type, n_jobs,
                 bpc, attempt, hist, sleeps, writes, mapping, lastGet, lastSave>>
  /\ UNCHANGED restVars

\* The provider request of the current attempt returns a result: it is saved
\* when a collection is configured, and returned.  Without a client the
\* request is an attribute access on None, which raises: ProviderFails.
ProviderSucceeds(i) ==
  /\ bpc \in {"running", "single"}
  /\ pc[i] = "calling"
  /\ provider
  /\ \E o \in Outcomes \ {"fail"}, fault \in (IF configured THEN BOOLEAN ELSE {FALSE}) :
       LET td == transcript_data_list[i]
           result == OutcomeValue(o, i, attempt[i] + 1)
       IN  /\ hist' = [hist EXCEPT ![i] = Append(@, o)]
           /\ cache' = SaveToMongodb(cache, td.ticker, td.year, td.quarter,
                                     MongoTag(prompt_type), result, fault)
           /\ res' = [res EXCEPT ![i] = [id |-> TranscriptId(td),
                                         val |-> Returned(result, SaveReturns(fault))]]
  /\ writes' = [writes EXCEPT ![i] = IF configured THEN @ + 1 ELSE @]
  /\ cache_ops' = cache_ops + (IF configured THEN 1 ELSE 0)
  /\ pc' = [pc EXCEPT ![i] = "done"]
  /\ UNCHANGED <<configured, cache0, transcript_data_list, prompt_type, n_jobs, bpc,
                 attempt, sleeps, seen, reads, provider_calls, mapping, lastGet, lastSave>>
  /\ UNCHANGED restVars

\* The provider request of the current attempt raises: sleep and retry, or
\* return the error string after the last attempt.
ProviderFails(i) ==
  /\ bpc \in {"running", "single"}
  /\ pc[i] = "calling"
  /\ hist' = [hist EXCEPT ![i] = Append(@, "fail")]
  /\ IF attempt[i] < max_retries - 1
       THEN /\ sleeps' = [sleeps EXCEPT ![i] = Append(@, Backoff(attempt[i]))]
            /\ pc' = [pc EXCEPT ![i] = "sleeping"]
            /\ UNCHANGED res
       ELSE /\ res' = [res EXCEPT ![i] = [id |-> TranscriptId(transcript_data_list[i]),
                                         val |-> Sentinel(Msg(attempt[i] + 1))]]
            /\ pc' = [pc EXCEPT ![i] = "done"]
            /\ UNCHANGED sleeps
  /\ UNCHANGED <<configured, cache, cache0, transcript_data_list, prompt_type, n_jobs,
                 bpc, attempt, seen, reads, writes, provider_calls, cache_ops, mapping,
                 lastGet, lastSave>>
  /\ UNCHANGED restVars

\* time.sleep returns: the loop goes to its next attempt and sends the request.
Wake(i) ==
  /\ bpc \in {"running", "single"}
  /\ pc[i] = "sleeping"
  /\ attempt' = [attempt EXCEPT ![i] = @ + 1]
  /\ provider_calls' = provider_calls + 1
  /\ pc' = [pc EXCEPT ![i] = "calling"]
  /\ UNCHANGED <<configured, cache, cache0, transcript_data_list, prompt_type, n_jobs,
                 bpc, hist, sleeps, res, seen, reads, writes, cache_ops, mapping,
                 lastGet, lastSave>>
  /\ UNCHANGED restVars

\* A return as soon as one task has its result.
ReturnBatchEarly ==
  /\ bpc = "running"
  /\ \E i \in Idx : pc[i] = "done"
  /\ mapping' = ToDict(res)
  /\ bpc' = "returned"
  /\ UNCHANGED <<configured, cache, cache0, transcript_data_list, prompt_type, n_jobs,
                 pc, attempt, hist, sleeps, res, seen, reads, writes, provider_calls,
                 cache_ops, lastGet, lastSave>>
  /\ UNCHANGED restVars

\* Parallel has every result: the list of tuples becomes the dict.
ReturnBatch ==
  /\ bpc = "running"
  /\ \A i \in Idx : pc[i] = "done"
  /\ mapping' = ToDict(res)
  /\ bpc' = "returned"
  /\ UNCHANGED <<configured, cache, cache0, transcript_data_list, prompt_type, n_jobs,
                 pc, attempt, hist, sleeps, res, seen, reads, writes, provider_calls,
                 cache_ops, lastGet, lastSave>>
  /\ UNCHANGED restVars

\* Parallel re-raises the exception of a task in the caller.
RaiseBatch ==
  /\ bpc = "running"
  /\ \E i \in Idx : pc[i] = "raised"
  /\ bpc' = "raised"
  /\ UNCHANGED <<configured, cache, cache0, transcript_data_list, prompt_type, n_jobs,
                 pc, attempt, hist, sleeps, res, seen, reads, writes, provider_calls,
                 cache_ops, mapping, lastGet, lastSave>>
  /\ UNCHANGED restVars

(***************************************************************************)
(* Structured mode of the sentiment kind.                                  *)
(***************************************************************************)
Backends == {"openai", "gemini"}

\* The fields of SentimentEvent, which are the "required" list of the schema
\* analyzer_gemini.py sends.
ScoreFields ==
  {"sentiment_score", "financial_performance_score", "forward_guidance_score",
   "management_confidence_score", "analyst_reaction_score", "strategic_direction_score"}
TextFields ==
  {"sentiment_explanation", "financial_performance_explanation",
   "forward_guidance_explanation", "management_confidence_explanation",
   "analyst_reaction_explanation", "strategic_direction_explanation",
   "confidence_assessment"}
ListFields == {"key_sentiment_indicators", "sentiment_shifts"}
SentimentFields == ScoreFields \cup TextFields \cup ListFields

\* A JSON object with every field: scores are in tenths (5 is 0.5).
FullOutput ==
  [f \in SentimentFields |->
     IF f \in ScoreFields THEN 5 ELSE IF f \in ListFields THEN <<"i">> ELSE "x"]

\* The JSON objects a provider response can carry: complete, one field
\* absent, a score of 2.0, no indicators.
SentimentOutcomes == {"full", "missing", "range", "noind"}

SentimentOutput(o) ==
  CASE o = "full" -> FullOutput
    [] o = "missing" -> [f \in SentimentFields \ {"sentiment_shifts"} |-> FullOutput[f]]
    [] o = "range" -> [FullOutput EXCEPT !["sentiment_score"] = 20]
    [] o = "noind" -> [FullOutput EXCEPT !["key_sentiment_indicators"] = <<>>]

\* Validation of a SentimentEvent: every field is required; a score is any
\* float, a list any list of strings.
Validates(obj) == SentimentFields \subseteq DOMAIN obj

\* What the backend makes of the provider's JSON object: analyzer.py has the
\* client parse it into a SentimentEvent (an exception when that fails) and
\* returns json.loads(event.json()); analyzer_gemini.py returns
\* json.loads(response.text).
ParseSentiment(b, obj) ==
  IF b = "openai"
    THEN [ok |-> Validates(obj),
          val |-> Dict([f \in SentimentFields \cap DOMAIN obj |-> obj[f]])]
    ELSE [ok |-> TRUE, val |-> Dict(obj)]

\* analyze_single_transcript(td, "sentiment") is called directly.
CallSentiment ==
  /\ bpc = "idle"
  /\ \E td \in Records : transcript_data_list' = <<td>>
  /\ prompt_type' = "sentiment"
  /\ bpc' = "single"
  /\ cache0' = cache
  /\ StartCalls(1, "started")
  /\ UNCHANGED <<configured, cache, n_jobs, provider_calls, cache_ops, mapping, lastGet,
                 lastSave>>
  /\ UNCHANGED restVars

\* The provider answers the sentiment request of the current attempt with a
\* JSON object: when the backend accepts it, the dict is saved and returned;
\* when parsing raises, the except branch of the retry loop runs.
SentimentResponds(i) ==
  /\ bpc = "single"
  /\ prompt_type = "sentiment"
  /\ pc[i] = "calling"
  /\ provider
  /\ \E o \in SentimentOutcomes, fault \in (IF configured THEN BOOLEAN ELSE {FALSE}) :
       LET td == transcript_data_list[i]
           p == ParseSentiment(backend, SentimentOutput(o))
       IN  /\ hist' = [hist EXCEPT ![i] = Append(@, o)]
           /\ IF p.ok
                THEN /\ cache' = SaveToMongodb(cache, td.ticker, td.year, td.quarter,
                                               MongoTag(prompt_type), p.val, fault)
                     /\ res' = [res EXCEPT ![i] =
                                  [id |-> TranscriptId(td),
                                   val |-> Returned(p.val, SaveReturns(fault))]]
                     /\ writes' = [writes EXCEPT ![i] = IF configured THEN @ + 1 ELSE @]
                     /\ cache_ops' = cache_ops + (IF configured THEN 1 ELSE 0)
                     /\ pc' = [pc EXCEPT ![i] = "done"]
                     /\ UNCHANGED sleeps
                ELSE /\ IF attempt[i] < max_retries - 1
                          THEN /\ sleeps' = [sleeps EXCEPT ![i] = Append(@, Backoff(attempt[i]))]
                               /\ pc' = [pc EXCEPT ![i] = "sleeping"]
                               /\ UNCHANGED res
                          ELSE /\ res' = [res EXCEPT ![i] =
                                            [id |-> TranscriptId(td),
                                             val |-> Sentinel(Msg(attempt[i] + 1))]]
                               /\ pc' = [pc EXCEPT ![i] = "done"]
                               /\ UNCHANGED sleeps
                     /\ UNCHANGED <<cache, writes, cache_ops>>
  /\ UNCHANGED <<configured, cache0, transcript_data_list, prompt_type, n_jobs, bpc,
                 attempt, seen, reads, provider_calls, mapping, lastGet, lastSave>>
  /\ UNCHANGED restVars

(***************************************************************************)
(* Consumers of the batch result: the endpoints of api_server_v2.py and    *)
(* the sentiment tab of streamlit_app_gemini.py.                           *)
(***************************************************************************)
\* The table of stock-tickers.csv, here with one symbol.
symbol_to_name == [x \in {BRK_hyp} |-> <<"B", "H">>]

\* The lookup without ticker.upper().
get_company_name_as_given(ticker) ==
  IF ticker \in DOMAIN symbol_to_name THEN symbol_to_name[ticker] ELSE ticker

\* company_utils.get_company_name: upper-cases, then looks up, else echoes.
get_company_name(ticker) ==
  LET t == Upper(ticker)
  IN  IF t \in DOMAIN symbol_to_name THEN symbol_to_name[t] ELSE t

\* get_company_name of the dashboard: looks up, else echoes.
get_company_name_app(ticker) ==
  IF ticker \in DOMAIN symbol_to_name THEN symbol_to_name[ticker] ELSE ticker

\* f"### Company Name : {company_name} \n\n"
Header(company_name) ==
  <<"#", "#", "#", " ", "C", "o", "m", "p", "a", "n", "y", " ", "N", "a", "m", "e",
      " ", ":", " ">>
    \o company_name \o <<" ", "\n", "\n">>

\* str(x) of a float given in tenths: 5 is "0.5", 20 is "2.0", -5 is "-0.5".
FormatTenths(n) ==
  IF n < 0 THEN <<"-">> \o Decimal((0 - n) \div 10) \o <<".">> \o Decimal((0 - n) % 10)
  ELSE Decimal(n \div 10) \o <<".">> \o Decimal(n % 10)

\* sep.join(l) for a list of strings given as TLA+ strings of one character
RECURSIVE Join(_, _)
Join(sep, l) ==
  IF l = <<>> THEN <<>>
  ELSE IF Len(l) = 1 THEN <<l[1]>>
  ELSE <<l[1]>> \o sep \o Join(sep, Tail(l))

\* What analyze_transcripts returns for list l of kind pt when the calls of
\* the items in failing end with the error string and the others with a
\* result: a text, or the dict of a complete sentiment record.
BatchMapping(l, pt, failing) ==
  ToDict([i \in 1..Len(l) |->
            [id |-> TranscriptId(l[i]),
             val |-> IF i \in failing THEN Sentinel(Msg(max_retries))
                     ELSE IF pt = "sentiment" THEN Dict(FullOutput)
                     ELSE Str(Text(i, 1))]])

\* A filter that keeps every field of the record.
keys_all == SentimentFields

keys_to_keep ==
  {"sentiment_score", "sentiment_explanation", "analyst_reaction_score",
   "analyst_reaction_explanation", "key_sentiment_indicators"}

\* POST /analyze/summary, /analyze/topics, /analyze/sentiment for a ticker:
\* the mapping of the ticker's transcripts is post-processed; any exception
\* becomes HTTP 500.  The text kinds prepend the header to every value; the
\* sentiment kind calls data.items() on every value, which a str lacks.
ApiAnalyze ==
  /\ \E ticker \in Tickers, pt \in {"summary", "topics", "sentiment"} :
       \E l \in SeqsUpTo({r \in Records : r.ticker = ticker}, MaxBatch) :
         \E failing \in SUBSET (1..Len(l)) :
           LET m == BatchMapping(l, pt, failing)
               ok == pt = "sentiment" => \A id \in DOMAIN m : m[id].t = "dict"
               body ==
                 IF pt = "sentiment"
                   THEN [id \in DOMAIN m |->
                           Dict([k \in DOMAIN m[id].d \cap keys_to_keep |-> m[id].d[k]])]
                   ELSE [id \in DOMAIN m |->
                           Str(Header(get_company_name(ticker)) \o m[id].s)]
           IN  response' = <<[consumer |-> "api", kind |-> pt, data |-> ticker, got |-> m,
                              failed |-> ~ok,
                              shown |-> IF ok THEN body ELSE EmptyMap]>>
  /\ UNCHANGED <<configured, cache, cache0, lastGet, lastSave, backend, provider, first>>
  /\ UNCHANGED callVars
  /\ UNCHANGED <<fetchVars, dashVars>>

\* The text the sentiment tab writes for one transcript: the header, then the
\* five lines when every subscript works; a str value raises at the first
\* subscript and leaves the header alone.
SentimentText(ticker, v) ==
  Header(get_company_name_app(ticker)) \o
  ( IF v.t # "dict" THEN <<>>
    ELSE <<"*", "*", "S", "e", "n", "t", "i", "m", "e", "n", "t", " ", "S", "c", "o", "r",
         "e", ":", "*", "*", " ">>
           \o FormatTenths(v.d["sentiment_score"]) \o <<"\n", "\n">>
         \o <<"*", "*", "S", "e", "n", "t", "i", "m", "e", "n", "t", " ", "A", "n", "a", "l",
         "y", "s", "i", "s", ":", "*", "*", " ">>
           \o <<v.d["sentiment_explanation"]>> \o <<"\n", "\n">>
         \o <<"*", "*", "A", "n", "a", "l", "y", "s", "t", " ", "R", "e", "a", "c", "t", "i",
         "o", "n", " ", "S", "c", "o", "r", "e", ":", "*", "*", " ">>
           \o FormatTenths(v.d["analyst_reaction_score"]) \o <<"\n", "\n">>
         \o <<"*", "*", "A", "n", "a", "l", "y", "s", "t", " ", "R", "e", "a", "c", "t", "i",
         "o", "n", ":", "*", "*", " ">>
           \o <<v.d["analyst_reaction_explanation"]>> \o <<"\n", "\n">>
         \o <<"*", "*", "K", "e", "y", " ", "S", "e", "n", "t", "i", "m", "e", "n", "t", " ",
         "I", "n", "d", "i", "c", "a", "t", "o", "r", "s", ":", "*", "*", "\n", "\n", "-",
         " ">>
           \o Join(<<"\n", "\n", "-", " ">>, v.d["key_sentiment_indicators"])
           \o <<"\n">> )

\* "Calculate Sentiment" on fetched data l, then the sentiment tab: the bar
\* chart is built inside one try block over all transcripts, the text of each
\* transcript inside its own.
DashboardSentiment ==
  /\ \E l \in SeqsUpTo(Records, MaxBatch) \ {<<>>} :
       \E failing \in SUBSET (1..Len(l)) :
         LET m == BatchMapping(l, "sentiment", failing)
             chart == \A i \in 1..Len(l) : m[TranscriptId(l[i])].t = "dict"
         IN  response' = <<[consumer |-> "dashboard", kind |-> "sentiment", data |-> l,
                            got |-> m,
                            failed |-> ~chart,
                            shown |-> [id \in DOMAIN m |->
                                         LET i == CHOOSE i \in 1..Len(l) : TranscriptId(l[i]) = id
                                         IN  Str(SentimentText(l[i].ticker, m[id]))]]>>
  /\ UNCHANGED <<configured, cache, cache0, lastGet, lastSave, backend, provider, first>>
  /\ UNCHANGED callVars
  /\ UNCHANGED <<fetchVars, dashVars>>

\* Tickers whose name is asked for: a symbol of the table, the same in lower
\* case, and two the table does not have, in upper and in lower case.
NameTickers == {BRK_hyp, BRK_low, BRK_dot, <<"z">>}

\* A call of get_company_name: of company_utils.py as the endpoints import
\* it, or of the function the dashboard defines for itself.
CompanyName ==
  /\ \E ticker \in NameTickers, c \in {"api", "dashboard"} :
       response' = <<[consumer |-> c, kind |-> "name", data |-> ticker, got |-> EmptyMap,
                      failed |-> FALSE,
                      shown |-> [x \in {ticker} |->
                                   Str(IF c = "api" THEN get_company_name(ticker)
                                       ELSE get_company_name_app(ticker))]]>>
  /\ UNCHANGED <<configured, cache, cache0, lastGet, lastSave, backend, provider, first>>
  /\ UNCHANGED callVars
  /\ UNCHANGED <<fetchVars, dashVars>>

\* "n_jobs = 4" of the dashboard
dashboard_n_jobs == 4

\* One of the buttons "Step 2: Summarize Data", "Step 3: Extract Topics",
\* "Step 4: Calculate Sentiment".  analyzer is None when GEMINI_API_KEY is
\* not set, and fetched_data is None until Step 1 found transcripts: either
\* shows an error and calls nothing.  Otherwise analyze_transcripts is called
\* on the fetched records.
DashboardStep ==
  /\ bpc = "idle"
  /\ backend = "gemini"
  /\ \E pt \in {"summary", "topics", "sentiment"}, fetched \in BOOLEAN,
        l \in SeqsUpTo(Records, MaxBatch) \ {<<>>} :
       IF ~provider \/ ~fetched
         THEN /\ response' = <<[consumer |-> "dashboard", kind |-> pt, data |-> <<>>,
                                got |-> EmptyMap, failed |-> TRUE, shown |-> EmptyMap]>>
              /\ UNCHANGED cache0
              /\ UNCHANGED callVars
         ELSE /\ transcript_data_list' = l
              /\ prompt_type' = pt
              /\ n_jobs' = dashboard_n_jobs
              /\ StartCalls(Len(l), "queued")
              /\ bpc' = "running"
              /\ cache0' = cache
              /\ mapping' = EmptyMap
              /\ UNCHANGED <<provider_calls, cache_ops, response>>
  /\ UNCHANGED <<configured, cache, lastGet, lastSave, backend, provider, first>>
  /\ UNCHANGED <<fetchVars, dashVars>>

\* The non-empty lists get_last_n_quarters can return: records of one
\* ticker, each of an earlier quarter than the one before.
FetchResults ==
  {l \in SeqsUpTo(Records, MaxBatch) \ {<<>>} :
     \A k \in 1..Len(l) : \A m \in 1..Len(l) :
       k < m => /\ l[k].ticker = l[m].ticker
                /\ l[k].year * 4 + l[k].quarter > l[m].year * 4 + l[m].quarter}

\* What get_last_n_quarters does for the "Step 1: Fetch Data" button: it
\* returns such a list, returns the empty list, or raises.
FetchOutcomes == {[raised |-> FALSE, results |-> l] : l \in FetchResults \cup {<<>>}}
                   \cup {[raised |-> TRUE, results |-> <<>>]}

\* "Step 1: Fetch Data".  Without a fetcher an error is shown.  Otherwise
\* timing_data is cleared and get_last_n_quarters called: a non-empty result
\* becomes fetched_data; an empty one, or an exception, shows an error.
DashboardFetch ==
  /\ bpc = "idle"
  /\ backend = "gemini"
  /\ IF ~ninja
       THEN /\ response' = <<[consumer |-> "dashboard", kind |-> "fetch", data |-> <<>>,
                              got |-> EmptyMap, failed |-> TRUE, shown |-> EmptyMap]>>
            /\ UNCHANGED session
       ELSE \E o \in FetchOutcomes :
              /\ session' =
                   IF ~o.raised /\ ~IsEmpty(o.results)
                     THEN [session EXCEPT !.fetched_data = <<o.results>>,
                                          !.timing_data = {"Fetch Data"}]
                     ELSE [session EXCEPT !.timing_data = {}]
              /\ response' = <<[consumer |-> "dashboard", kind |-> "fetch",
                                data |-> <<>>, got |-> EmptyMap,
                                failed |-> o.raised \/ IsEmpty(o.results),
                                shown |-> EmptyMap]>>
  /\ UNCHANGED <<ninja, analyses>>
  /\ UNCHANGED <<configured, cache, cache0, lastGet, lastSave, backend, provider, first>>
  /\ UNCHANGED callVars
  /\ UNCHANGED fetchVars

\* The check of Steps 2-4 with only its first half.
StepAllowedAnalyzerOnly == provider

\* "if analyzer is None ... elif st.session_state.fetched_data is None ..."
StepAllowed == provider /\ session.fetched_data # <<>>

\* The value of st.session_state.fetched_data handed to analyze_transcripts.
FetchedList == IF session.fetched_data = <<>> THEN <<>> ELSE session.fetched_data[1]

\* One of the buttons of Steps 2-4 in a session: an error is shown when the
\* analyzer or the fetched data is missing, otherwise analyze_transcripts is
\* called on st.session_state.fetched_data.
DashboardPress ==
  /\ bpc = "idle"
  /\ backend = "gemini"
  /\ \E pt \in {"summary", "topics", "sentiment"} :
       IF ~StepAllowed
         THEN /\ response' = <<[consumer |-> "dashboard", kind |-> pt, data |-> <<>>,
                                got |-> EmptyMap, failed |-> TRUE, shown |-> EmptyMap]>>
              /\ UNCHANGED <<cache0, analyses>>
              /\ UNCHANGED callVars
         ELSE /\ analyses < MaxAnalyses
              /\ analyses' = analyses + 1
              /\ transcript_data_list' = FetchedList
              /\ prompt_type' = pt
              /\ n_jobs' = dashboard_n_jobs
              /\ StartCalls(Len(FetchedList), "queued")
              /\ bpc' = IF IsEmpty(FetchedList) THEN "returned" ELSE "running"
              /\ cache0' = cache
              /\ mapping' = EmptyMap
              /\ provider_calls' = 0
              /\ cache_ops' = 0
              /\ UNCHANGED response
  /\ UNCHANGED <<session, ninja>>
  /\ UNCHANGED <<configured, cache, lastGet, lastSave, backend, provider, first>>
  /\ UNCHANGED fetchVars

\* The session after analyze_transcripts returned m for kind pt.
Stored(ss, pt, m) ==
  CASE pt = "summary" ->
         [ss EXCEPT !.summaries = m, !.timing_data = @ \cup {"Summarize"}]
    [] pt = "topics" ->
         [ss EXCEPT !.topics = m, !.timing_data = @ \cup {"Extract Topics"}]
    [] OTHER ->
         [ss EXCEPT !.sentiments = m, !.timing_data = @ \cup {"Calculate Sentiment"}]

\* analyze_transcripts has returned or raised: the mapping is assigned to
\* the session, or the error is shown and the session left as it is.  The
\* locals of the finished calls are gone.
DashboardDone ==
  /\ bpc \in {"returned", "raised"}
  /\ backend = "gemini"
  /\ session' = IF bpc = "returned" THEN Stored(session, prompt_type, mapping)
                ELSE session
  /\ response' = <<[consumer |-> "dashboard", kind |-> prompt_type, data |-> <<>>,
                    got |-> EmptyMap, failed |-> bpc = "raised", shown |-> EmptyMap]>>
  /\ bpc' = "idle"
  /\ transcript_data_list' = <<>>
  /\ StartCalls(0, "queued")
  /\ mapping' = EmptyMap
  /\ provider_calls' = 0
  /\ cache_ops' = 0
  /\ UNCHANGED <<prompt_type, n_jobs>>
  /\ UNCHANGED <<ninja, analyses>>
  /\ UNCHANGED <<configured, cache, cache0, lastGet, lastSave, backend, provider, first>>
  /\ UNCHANGED fetchVars

\* analyze_transcripts of analyzer.py, called on an analyzer built with
\* whatever openai_client the caller had.
CallOpenAI ==
  /\ backend = "openai"
  /\ Call

(***************************************************************************)
(* Transcript fetcher: fetcher.py.                                         *)
(***************************************************************************)
\* Tickers asked of the fetcher: one in lower case, one with a period.
FetchTickers == {BRK_low, BRK_dot}

\* Year and quarter of datetime.now(): the four quarters of one year.
Nows == {[year |-> 2024, quarter |-> q] : q \in 1..4}

\* The wrap without the decrement of the year.
RECURSIVE AdjustSameYear(_, _)
AdjustSameYear(year, quarter) ==
  IF quarter <= 0 THEN AdjustSameYear(year, quarter + 4)
  ELSE [year |-> year, quarter |-> quarter]

\* "while quarter <= 0: year -= 1; quarter += 4"
RECURSIVE Adjust(_, _)
Adjust(year, quarter) ==
  IF quarter <= 0 THEN Adjust(year - 1, quarter + 4)
  ELSE [year |-> year, quarter |-> quarter]

\* The current quarter, whatever the iteration.
QuarterOfNow(a) == Adjust(now.year, now.quarter)

\* Year and quarter tried by the iteration that starts with attempts = a.
QuarterOf(a) == Adjust(now.year, now.quarter - a)

\* The quarters a call with n up to MaxN can try.
Periods == {Adjust(t.year, t.quarter - a) : t \in Nows, a \in 0..(2 * MaxN - 1)}

\* _get_filename, without the directory
Filename(ticker, year, quarter) ==
  ticker \o <<"_">> \o Decimal(year) \o <<"_", "Q">> \o Decimal(quarter)
    \o <<".", "j", "s", "o", "n">>

\* What the request of _fetch_from_api can do: "ok" is status 200 with a
\* non-empty transcript; "fail" is any other status, an empty transcript, a
\* timeout or another exception.
ApiOutcomes == {"ok", "fail"}

\* get_transcript without the look at the file.
GetTranscriptNoCache(fs, ticker, year, quarter, force_refresh, readable, api) ==
  IF api = "ok"
    THEN [success |-> TRUE, error |-> FALSE, api |-> TRUE,
          files |-> fs \cup {Filename(Upper(ticker), year, quarter)}]
    ELSE [success |-> FALSE, error |-> TRUE, api |-> TRUE, files |-> fs]

\* _fetch_from_api: the file is written and (True, data) returned on "ok",
\* (False, {"error": ...}) otherwise.
FetchFromApi(fs, ticker, year, quarter, api) ==
  IF api = "ok"
    THEN [success |-> TRUE, error |-> FALSE, api |-> TRUE,
          files |-> fs \cup {Filename(ticker, year, quarter)}]
    ELSE [success |-> FALSE, error |-> TRUE, api |-> TRUE, files |-> fs]

\* get_transcript: the file when it exists, no refresh is forced and it can
\* be read; the API otherwise.  "error" says whether data has the key.
GetTranscript(fs, ticker, year, quarter, force_refresh, readable, api) ==
  LET t == Upper(ticker)
  IN  IF Filename(t, year, quarter) \in fs /\ ~force_refresh /\ readable
        THEN [success |-> TRUE, error |-> FALSE, api |-> FALSE, files |-> fs]
        ELSE FetchFromApi(fs, t, year, quarter, api)

\* What a transcript file can hold: the JSON document _fetch_from_api wrote,
\* another JSON document, or bytes that json.load rejects.
FileContents == {"api", "other", "corrupt"}

\* open and json.load of the file of (ticker, year, quarter) succeed: the
\* file can be opened (io) and holds a JSON document.
Readable(ct, ticker, year, quarter, io) ==
  LET f == Filename(Upper(ticker), year, quarter)
  IN  f \in DOMAIN ct /\ io /\ ct[f] # "corrupt"

\* What the file of (ticker, year, quarter) holds, "none" when there is no
\* such file.
FileHolds(ct, ticker, year, quarter) ==
  LET f == Filename(Upper(ticker), year, quarter)
  IN  IF f \in DOMAIN ct THEN ct[f] ELSE "none"

\* The second component of what get_transcript returns: the document loaded
\* from the file, the document of the response, or the error record.
TranscriptData(ct, ticker, year, quarter, r) ==
  IF ~r.api THEN ct[Filename(Upper(ticker), year, quarter)]
  ELSE IF r.success THEN "api" ELSE "error"

\* The files after get_transcript returned r, were a file that exists
\* left as it is.
ContentAfterKeeping(ct, ticker, year, quarter, r) ==
  [g \in r.files |-> IF g \in DOMAIN ct THEN ct[g] ELSE "api"]

\* The files after get_transcript returned r: json.dump of the response
\* replaces what the file of (ticker, year, quarter) held.
ContentAfter(ct, ticker, year, quarter, r) ==
  [g \in r.files |->
     IF r.api /\ r.success /\ g = Filename(Upper(ticker), year, quarter)
       THEN "api" ELSE ct[g]]

ContinueThrice == quarters_found < f_n /\ attempts < f_n * 3

\* "while quarters_found < n and attempts < n * 2"
Continue == quarters_found < f_n /\ attempts < f_n * 2

analyzerVars == <<configured, cache, cache0, lastGet, lastSave, backend, provider,
                  first, response, dashVars>>

\* get_transcript(ticker, year, quarter, force_refresh) called directly for
\* a quarter of P.
GetTranscriptOver(P) ==
  /\ fpc = "idle"
  /\ \E ticker \in FetchTickers, t \in P, force_refresh \in BOOLEAN,
        io \in BOOLEAN, api \in ApiOutcomes :
       LET r == GetTranscript(files, ticker, t.year, t.quarter, force_refresh,
                              Readable(content, ticker, t.year, t.quarter, io), api)
       IN  /\ files' = r.files
           /\ content' = ContentAfter(content, ticker, t.year, t.quarter, r)
           /\ lastTranscript' =
                <<[ticker |-> ticker, year |-> t.year, quarter |-> t.quarter,
                   force_refresh |-> force_refresh, io |-> io, outcome |-> api,
                   success |-> r.success, api |-> r.api,
                   data |-> TranscriptData(content, ticker, t.year, t.quarter, r),
                   had |-> FileHolds(content, ticker, t.year, t.quarter),
                   has |-> FileHolds(content', ticker, t.year, t.quarter)]>>
  /\ UNCHANGED <<fpc, f_ticker, f_n, now, attempts, quarters_found, results, log>>
  /\ UNCHANGED analyzerVars
  /\ UNCHANGED callVars

\* A direct call of get_transcript.
GetTranscriptDirect ==
  /\ Cardinality(files) < MaxFiles
  /\ GetTranscriptOver(Periods)

\* The quarters asked of get_transcript when it is called again and again.
AskedPeriods == {[year |-> 2024, quarter |-> q] : q \in 1..2}

\* get_transcript called again and again for the same few quarters, on a
\* directory that may already hold the file.
CallGetTranscript ==
  /\ GetTranscriptOver(AskedPeriods)
  /\ Cardinality(files') <= MaxKept

\* A transcript file is changed from outside: to another JSON document, or
\* to something json.load rejects.
DamageFile ==
  /\ fpc = "idle"
  /\ \E f \in files, c \in FileContents \ {"api"} :
       /\ content[f] # c
       /\ content' = [content EXCEPT ![f] = c]
  /\ UNCHANGED <<files, lastTranscript, fpc, f_ticker, f_n, now, attempts,
                 quarters_found, results, log>>
  /\ UNCHANGED analyzerVars
  /\ UNCHANGED callVars

\* get_last_n_quarters(ticker, n) is called.
CallFetch ==
  /\ fpc = "idle"
  /\ \E ticker \in FetchTickers, n \in 0..MaxN, t \in Nows :
       /\ f_ticker' = Upper(ticker)
       /\ f_n' = n
       /\ now' = t
  /\ results' = <<>>
  /\ attempts' = 0
  /\ quarters_found' = 0
  /\ log' = <<>>
  /\ fpc' = "loop"
  /\ lastTranscript' = <<>>
  /\ UNCHANGED <<files, content>>
  /\ UNCHANGED analyzerVars
  /\ UNCHANGED callVars

\* One iteration of the while loop.
FetchStep ==
  /\ fpc = "loop"
  /\ Continue
  /\ \E readable \in BOOLEAN, api \in ApiOutcomes :
       LET t == QuarterOf(attempts)
           r == GetTranscript(files, f_ticker, t.year, t.quarter, FALSE,
                              Readable(content, f_ticker, t.year, t.quarter, readable),
                              api)
       IN  /\ IF r.success /\ ~r.error
                THEN /\ results' = Append(results, [ticker |-> f_ticker, year |-> t.year,
                                                    quarter |-> t.quarter])
                     /\ quarters_found' = quarters_found + 1
                ELSE UNCHANGED <<results, quarters_found>>
           /\ files' = r.files
           /\ content' = ContentAfter(content, f_ticker, t.year, t.quarter, r)
           /\ log' = Append(log, [year |-> t.year, quarter |-> t.quarter,
                                  success |-> r.success, api |-> r.api])
  /\ attempts' = attempts + 1
  /\ UNCHANGED <<fpc, f_ticker, f_n, now, lastTranscript>>
  /\ UNCHANGED analyzerVars
  /\ UNCHANGED callVars

\* The loop ends and results is returned.
FetchReturn ==
  /\ fpc = "loop"
  /\ ~Continue
  /\ fpc' = "returned"
  /\ UNCHANGED <<files, content, lastTranscript, f_ticker, f_n, now, attempts,
                 quarters_found, results, log>>
  /\ UNCHANGED analyzerVars
  /\ UNCHANGED callVars

\* One call of analyze_transcripts on a fresh analyzer.
Next ==
  \/ Call
  \/ \E i \in Idx : Dispatch(i)
  \/ \E i \in Idx : Lookup(i)
  \/ \E i \in Idx : ProviderSucceeds(i)
  \/ \E i \in Idx : ProviderFails(i)
  \/ \E i \in Idx : Wake(i)
  \/ ReturnBatch
  \/ RaiseBatch

Spec == Init /\ [][Next]_vars

\* Direct save_to_mongodb calls, then one direct call of analyze_single_transcript.
NextSingle ==
  \/ SaveDirect
  \/ CallSingle
  \/ \E i \in Idx : Lookup(i)
  \/ \E i \in Idx : ProviderSucceeds(i)
  \/ \E i \in Idx : ProviderFails(i)
  \/ \E i \in Idx : Wake(i)

SpecSingle == Init /\ [][NextSingle]_vars

\* One direct sentiment call on a fresh analyzer of either module.
InitSentiment == \E b \in Backends : InitWith(b)

NextSentiment ==
  \/ CallSentiment
  \/ \E i \in Idx : Lookup(i)
  \/ \E i \in Idx : SentimentResponds(i)
  \/ \E i \in Idx : ProviderFails(i)
  \/ \E i \in Idx : Wake(i)

SpecSentiment == InitSentiment /\ [][NextSentiment]_vars

\* Requests to the consumers.
NextConsumer == ApiAnalyze \/ DashboardSentiment \/ CompanyName

SpecConsumer == Init /\ [][NextConsumer]_vars

\* Direct get_transcript calls, then one call of get_last_n_quarters.
NextFetch == GetTranscriptDirect \/ CallFetch \/ FetchStep \/ FetchReturn

SpecFetch == Init /\ [][NextFetch]_vars

\* get_transcript alone, on files that can be damaged between calls.
NextTranscript == CallGetTranscript \/ DamageFile

SpecTranscript == Init /\ [][NextTranscript]_vars

\* A process with or without its provider key: the dashboard with the
\* analyzer of analyzer_gemini.py, or a caller of analyzer.py.
InitProvider == \E b \in Backends, p \in BOOLEAN : InitOf(b, p)

NextProvider ==
  \/ DashboardStep
  \/ CallOpenAI
  \/ \E i \in Idx : Dispatch(i)
  \/ \E i \in Idx : Lookup(i)
  \/ \E i \in Idx : ProviderSucceeds(i)
  \/ \E i \in Idx : ProviderFails(i)
  \/ \E i \in Idx : Wake(i)
  \/ ReturnBatch
  \/ RaiseBatch

SpecProvider == InitProvider /\ [][NextProvider]_vars

\* A dashboard session: with or without each of its two API keys.
InitDashboard == \E p \in BOOLEAN, k \in BOOLEAN : InitAll("gemini", p, k)

NextDashboard ==
  \/ DashboardFetch
  \/ DashboardPress
  \/ DashboardDone
  \/ \E i \in Idx : Dispatch(i)
  \/ \E i \in Idx : Lookup(i)
  \/ \E i \in Idx : ProviderSucceeds(i)
  \/ \E i \in Idx : ProviderFails(i)
  \/ \E i \in Idx : Wake(i)
  \/ ReturnBatch

SpecDashboard == InitDashboard /\ [][NextDashboard]_vars

\* Two direct calls of analyze_single_transcript, one after the other, with
\* the same arguments on one analyzer.
NextTwice ==
  \/ CallSingle
  \/ CallSingleAgain
  \/ \E i \in Idx : Lookup(i)
  \/ \E i \in Idx : ProviderSucceeds(i)
  \/ \E i \in Idx : ProviderFails(i)
  \/ \E i \in Idx : Wake(i)

SpecTwice == Init /\ [][NextTwice]_vars

\* The request of a free-text kind returns: both modules take the text of
\* the response as the result.
TextResponds(i) ==
  /\ prompt_type # "sentiment"
  /\ ProviderSucceeds(i)

\* Two successive direct calls with the same arguments, of any kind, on an
\* analyzer of either module.
NextBackends ==
  \/ CallSingle
  \/ CallSingleAgain
  \/ \E i \in Idx : Lookup(i)
  \/ \E i \in Idx : TextResponds(i)
  \/ \E i \in Idx : SentimentResponds(i)
  \/ \E i \in Idx : ProviderFails(i)
  \/ \E i \in Idx : Wake(i)

SpecBackends == InitSentiment /\ [][NextBackends]_vars

\* The batch specification with its scheduling: a call that a worker runs
\* takes its next step when the cache or the provider returns, which each
\* does with a value or an error; a sleep ends; an idle worker of the pool
\* takes the next item; Parallel returns or re-raises once it can.
Fairness ==
  /\ \A i \in 1..MaxBatch : WF_vars(i \in Idx /\ Dispatch(i))
  /\ \A i \in 1..MaxBatch : WF_vars(i \in Idx /\ Lookup(i))
  /\ \A i \in 1..MaxBatch :
       WF_vars(i \in Idx /\ (ProviderSucceeds(i) \/ ProviderFails(i)))
  /\ \A i \in 1..MaxBatch : WF_vars(i \in Idx /\ Wake(i))
  /\ WF_vars(ReturnBatch)
  /\ WF_vars(RaiseBatch)

SpecFair == Init /\ [][Next]_vars /\ Fairness

\* Direct calls of the cache adapter.
NextStore == SaveDirect \/ GetDirect

SpecStore == Init /\ [][NextStore]_vars

(***************************************************************************)
(* Vocabulary of the properties.                                           *)
(***************************************************************************)
\* Provider requests issued so far by the call for list item i.
Calls(i) == Len(hist[i]) + (IF pc[i] = "calling" THEN 1 ELSE 0)

FailCount(h) == Cardinality({k \in 1..Len(h) : h[k] = "fail"})

AllFailed == <<"fail", "fail", "fail">>

\* The TranscriptId of the records of the model, written out.
ExpectId(td) ==
  td.ticker \o <<"_", "2", "0", "2", "4", "_", "Q">> \o <<DigitChars[td.quarter + 1]>>

IsErrorString(v) == v.t = "str" /\ HasPrefix(v.s, <<"E", "R", "R", "O", "R", ":">>)

\* Tickers that differ at most by period versus hyphen.
DotHyphenEq(a, b) ==
  /\ Len(a) = Len(b)
  /\ \A k \in 1..Len(a) : a[k] = b[k] \/ {a[k], b[k]} \subseteq {".", "-"}

\* Records stored under one cache key: same year and quarter, tickers equal
\* up to period versus hyphen.
SameStorage(a, b) ==
  a.year = b.year /\ a.quarter = b.quarter /\ DotHyphenEq(a.ticker, b.ticker)

SharesNoKey(j) ==
  \A i \in Idx : i # j => ~SameStorage(transcript_data_list[i], transcript_data_list[j])

Pending == [t |-> "pending", s |-> <<>>]

\* What the call for list item j returns when it runs alone against the
\* collection as it was when the batch was called, its own provider requests
\* doing what they did: the first document under its key when there is one and
\* the call made no provider request, otherwise the value of its last request
\* (Pending while it has none to show).
AloneResult(j) ==
  LET td == transcript_data_list[j]
      c == GetFromMongodb(cache0, td.ticker, td.year, td.quarter, MongoTag(prompt_type), FALSE)
      h == hist[j]
  IN  IF Truthy(c) /\ h = <<>> THEN c
      ELSE IF h = <<>> THEN Pending
      ELSE IF h[Len(h)] # "fail" THEN OutcomeValue(h[Len(h)], j, Len(h))
      ELSE IF Len(h) = 3 THEN Str(<<"E", "R", "R", "O", "R", ":", " ">> \o Msg(3))
      ELSE Pending

(***************************************************************************)
(* C1                                                                      *)
(***************************************************************************)
\* C1 as stated: with a valid analysis kind the batch never raises, and when
\* the provider failed for one transcript, the entry of every other
\* transcript (another TranscriptId) in the returned mapping is the result it
\* gets when analysed alone.
C1_FaultNeverTouchesOthers ==
  ValidPromptType(prompt_type) =>
    /\ bpc # "raised"
    /\ bpc = "returned" =>
         \A i \in Idx, j \in Idx :
           (/\ FailCount(hist[i]) > 0
            /\ \A m \in Idx : m # j => transcript_data_list[m] # transcript_data_list[j])
             => mapping[ExpectId(transcript_data_list[j])] = AloneResult(j)

\* C1 amended: with a valid analysis kind the batch never raises, whatever
\* the provider and the cache do, and every transcript that shares its cache
\* key with no other transcript of the batch has in the returned mapping the
\* result it gets when analysed alone.
C1_FaultIsolation ==
  ValidPromptType(prompt_type) =>
    /\ bpc # "raised"
    /\ \A i \in Idx : pc[i] # "raised"
    /\ bpc = "returned" =>
         \A j \in Idx :
           SharesNoKey(j) =>
             /\ ExpectId(transcript_data_list[j]) \in DOMAIN mapping
             /\ mapping[ExpectId(transcript_data_list[j])] = AloneResult(j)

\* A batch has returned in which one transcript failed on all three attempts
\* and another, under a different cache key, has a provider text as result.
C1_Witness ==
  /\ bpc = "returned"
  /\ configured
  /\ \E i \in Idx, j \in Idx :
       /\ i # j
       /\ hist[i] = AllFailed
       /\ SharesNoKey(j)
       /\ hist[j] = <<"text">>
       /\ mapping[ExpectId(transcript_data_list[j])] = Str(Text(j, 1))

(***************************************************************************)
(* C2                                                                      *)
(***************************************************************************)
\* C2 as stated: the returned mapping has exactly one entry per input
\* transcript, so as many keys as the input list has transcripts.
C2_OneEntryPerTranscript ==
  bpc = "returned" =>
    /\ DOMAIN mapping = {ExpectId(transcript_data_list[i]) : i \in Idx}
    /\ Cardinality(DOMAIN mapping) = Len(transcript_data_list)

\* C2 amended: the returned mapping has exactly one entry per distinct
\* TranscriptId of the input list, error strings included; each entry is the
\* result of an input transcript with that id, and the number of keys is the
\* number of distinct (ticker, year, quarter) of the input.
C2_OneEntryPerTranscriptId ==
  bpc = "returned" =>
    /\ DOMAIN mapping = {ExpectId(transcript_data_list[i]) : i \in Idx}
    /\ Cardinality(DOMAIN mapping) =
         Cardinality({transcript_data_list[i] : i \in Idx})
    /\ \A id \in DOMAIN mapping :
         \E i \in Idx : ExpectId(transcript_data_list[i]) = id /\ mapping[id] = res[i].val

\* A returned mapping with two keys, one of them holding an error string.
C2_Witness ==
  /\ bpc = "returned"
  /\ Len(transcript_data_list) = 2
  /\ Cardinality(DOMAIN mapping) = 2
  /\ \E id \in DOMAIN mapping : IsErrorString(mapping[id])
  /\ \E id \in DOMAIN mapping : ~IsErrorString(mapping[id])

(***************************************************************************)
(* C3                                                                      *)
(***************************************************************************)
\* C3: when the collection holds a document under the key of the requested
\* kind and the lookup read it, the call returns that document's value and
\* issues no provider request, whatever the stored value is.
C3_CachedValueServed ==
  \A i \in Idx :
    LET k == FindOne(cache0, KeyOf(i))
    IN  (configured /\ pc[i] \notin {"queued", "started"} /\ k # 0 /\ seen[i] = cache0[k].val)
          => /\ pc[i] = "done"
             /\ res[i].val = cache0[k].val
             /\ Calls(i) = 0

(***************************************************************************)
(* C4                                                                      *)
(***************************************************************************)
\* C4: after three failed provider requests the call has returned
\* (TranscriptId, "ERROR: " + the message of the failure), nothing is raised,
\* and the mapping of a returned batch has a key for every transcript.
C4_ExhaustedRetriesGiveSentinel ==
  \A i \in Idx :
    hist[i] = AllFailed =>
      /\ pc[i] = "done"
      /\ bpc # "raised"
      /\ res[i].id = ExpectId(transcript_data_list[i])
      /\ res[i].val = Str(<<"E", "R", "R", "O", "R", ":", " ">> \o Msg(3))
      /\ bpc = "returned" =>
           \A j \in Idx : ExpectId(transcript_data_list[j]) \in DOMAIN mapping

\* A returned batch where one transcript exhausted its retries and the
\* mapping holds its error string next to another transcript's text.
C4_Witness ==
  /\ bpc = "returned"
  /\ \E i \in Idx, j \in Idx :
       /\ hist[i] = AllFailed
       /\ hist[j] = <<"text">>
       /\ IsErrorString(mapping[ExpectId(transcript_data_list[i])])
       /\ mapping[ExpectId(transcript_data_list[j])] = Str(Text(j, 1))

(***************************************************************************)
(* C5                                                                      *)
(***************************************************************************)
\* C5: a call issues at most 3 provider requests; after its first failed
\* request it has slept 1 second, after its second 1 then 2 seconds, and the
\* third failure adds no sleep.
C5_AtMostThreeCallsBackoff ==
  \A i \in Idx :
    /\ Calls(i) <= 3
    /\ sleeps[i] = CASE FailCount(hist[i]) = 0 -> <<>>
                     [] FailCount(hist[i]) = 1 -> <<1>>
                     [] OTHER -> <<1, 2>>

\* A call that failed three times, slept 1 and 2 seconds and has returned.
C5_Witness ==
  \E i \in Idx :
    pc[i] = "done" /\ hist[i] = AllFailed /\ sleeps[i] = <<1, 2>> /\ Calls(i) = 3

(***************************************************************************)
(* C6                                                                      *)
(***************************************************************************)
\* C6: when requests 1 and 2 fail and request 3 succeeds, the call returns
\* the value of request 3, not an error string, after sleeps that add up to
\* at least 3 seconds.
C6_ThirdAttemptSuccess ==
  \A i \in Idx :
    (Len(hist[i]) = 3 /\ hist[i][1] = "fail" /\ hist[i][2] = "fail" /\ hist[i][3] # "fail")
      => /\ pc[i] = "done"
         /\ res[i].val = OutcomeValue(hist[i][3], i, 3)
         /\ ~IsErrorString(res[i].val)
         /\ SumSeq(sleeps[i]) >= 3

\* A call that returned the text of its third request after two failures.
C6_Witness ==
  \E i \in Idx :
    pc[i] = "done" /\ hist[i] = <<"fail", "fail", "text">> /\ res[i].val = Str(Text(i, 3))

(***************************************************************************)
(* C7                                                                      *)
(***************************************************************************)
\* C7: at every moment at most n_jobs provider requests are in flight.
C7_InFlightBounded ==
  Cardinality({i \in Idx : pc[i] = "calling"}) <= n_jobs

\* n_jobs requests are in flight while another transcript waits for a worker.
C7_Witness ==
  /\ bpc = "running"
  /\ Cardinality({i \in Idx : pc[i] = "calling"}) = n_jobs
  /\ \E i \in Idx : pc[i] = "queued"

(***************************************************************************)
(* C8                                                                      *)
(***************************************************************************)
\* C8: analyze_transcripts on an empty list returns at once with an empty
\* mapping, no provider request and no cache operation, for every kind and
\* every n_jobs.
C8_EmptyBatch ==
  (bpc # "idle" /\ transcript_data_list = <<>>) =>
    /\ bpc = "returned"
    /\ DOMAIN mapping = {}
    /\ provider_calls = 0
    /\ cache_ops = 0

\* The empty batch has returned, here for an unknown kind on a configured analyzer.
C8_Witness ==
  /\ bpc = "returned"
  /\ transcript_data_list = <<>>
  /\ prompt_type = "bogus"
  /\ n_jobs = MaxJobs
  /\ configured
  /\ DOMAIN mapping = {}

(***************************************************************************)
(* C9                                                                      *)
(***************************************************************************)
\* C9: with an unrecognised kind every call raises, having issued no
\* provider request, slept no second and written nothing to the cache; it
\* never returns a value.
C9_UnknownKindRaises ==
  \A i \in Idx :
    (~ValidPromptType(prompt_type) /\ pc[i] \notin {"queued", "started"})
      => /\ pc[i] = "raised"
         /\ Calls(i) = 0
         /\ sleeps[i] = <<>>
         /\ writes[i] = 0

(***************************************************************************)
(* C10                                                                     *)
(***************************************************************************)
\* C10: a get_from_mongodb that completes on a collection holding the one
\* document of a successful save returns the saved value when it is called
\* with the same year, quarter and tag and a ticker equal to the saved one up
\* to period versus hyphen.
C10_CacheRoundTrip ==
  (lastGet # <<>> /\ cache # <<>>) =>
    LET g == lastGet[1]
        d == cache[1]
    IN  (/\ g.docs = 1
         /\ ~g.fault
         /\ d.by[2] = g.year /\ d.by[3] = g.quarter /\ d.by[4] = g.tag
         /\ DotHyphenEq(d.by[1], g.ticker))
          => g.ret = d.val

\* A value saved under BRK.B has been read back under BRK-B.
C10_Witness ==
  /\ lastGet # <<>>
  /\ cache # <<>>
  /\ lastGet[1].docs = 1
  /\ cache[1].by[1] = BRK_dot
  /\ lastGet[1].ticker = BRK_hyp
  /\ cache[1].by[2] = lastGet[1].year
  /\ cache[1].by[3] = lastGet[1].quarter
  /\ cache[1].by[4] = lastGet[1].tag
  /\ lastGet[1].ret = Str(<<"c">>)

(***************************************************************************)
(* C11                                                                     *)
(***************************************************************************)
\* Tickers that differ at most in letter case.
CaseEq(a, b) == Upper(a) = Upper(b)

\* C11 as stated: a transcript whose ticker differs at most in letter case
\* from the ticker an entry was saved for (same year, quarter and kind) is
\* analysed under the cache key of that entry.
C11_LetterCaseSharesKey ==
  (bpc = "single" /\ configured) =>
    \A k \in 1..Len(cache0) :
      LET d == cache0[k]
          td == transcript_data_list[1]
      IN  ( /\ CaseEq(d.by[1], td.ticker)
            /\ d.by[2] = td.year
            /\ d.by[3] = td.quarter
            /\ d.by[4] = MongoTag(prompt_type) )
          => d.key = KeyOf(1)

(***************************************************************************)
(* C12                                                                     *)
(***************************************************************************)
\* What a finished call returns after at least one provider request: the
\* value of the last request, or the error string after the third failure.
ProviderResult(i) ==
  LET h == hist[i]
  IN  IF h[Len(h)] = "fail" THEN Sentinel(Msg(Len(h)))
      ELSE OutcomeValue(h[Len(h)], i, Len(h))

\* C12: without a collection, save_to_mongodb returns False and stores
\* nothing, get_from_mongodb returns None, and every analysis of a recognised
\* kind goes to the provider, never raises, and returns the provider's result
\* (or the error string of the provider's last failure).
C12_NoCacheConfigured ==
  ~configured =>
    /\ cache = <<>>
    /\ lastSave # <<>> => lastSave[1].ret = FALSE
    /\ \A i \in Idx :
         /\ seen[i] = None
         /\ writes[i] = 0
         /\ ValidPromptType(prompt_type) =>
              /\ pc[i] # "raised"
              /\ pc[i] # "started" => Calls(i) >= 1
              /\ pc[i] = "done" =>
                   /\ hist[i] # <<>>
                   /\ res[i] = [id |-> TranscriptId(transcript_data_list[i]),
                                val |-> ProviderResult(i)]

C12_Witness ==
  /\ ~configured
  /\ lastSave # <<>>
  /\ bpc = "single"
  /\ pc[1] = "done"
  /\ hist[1] = <<"text">>
  /\ res[1].val = Str(Text(1, 1))

(***************************************************************************)
(* C13                                                                     *)
(***************************************************************************)
\* The value stored first under the key of list item i when the call was
\* made; None when there is no document under that key.
StoredAtCall(i) ==
  LET k == FindOne(cache0, KeyOf(i))
  IN  IF k = 0 THEN None ELSE cache0[k].val

\* C13: a lookup returns the stored value or None, nothing else; when it
\* returned None -- the read failed, or nothing was stored -- a call of a
\* recognised kind does not raise, sends the provider request, and ends with
\* the provider's result, saved once when the provider returned one.
C13_ReadFailureIsMiss ==
  (configured /\ bpc = "single") =>
    \A i \in Idx :
      pc[i] # "started" =>
        /\ seen[i] \in {StoredAtCall(i), None}
        /\ (seen[i] = None /\ ValidPromptType(prompt_type)) =>
             /\ pc[i] \in {"calling", "sleeping", "done"}
             /\ Calls(i) >= 1
             /\ pc[i] = "done" =>
                  /\ res[i].val = ProviderResult(i)
                  /\ writes[i] = (IF hist[i][Len(hist[i])] = "fail" THEN 0 ELSE 1)

\* The read failed although a text is stored under the key, and the call
\* returned the provider's text.
C13_Witness ==
  /\ configured
  /\ bpc = "single"
  /\ Truthy(StoredAtCall(1))
  /\ seen[1] = None
  /\ pc[1] = "done"
  /\ hist[1] = <<"text">>
  /\ res[1].val = Str(Text(1, 1))

(***************************************************************************)
(* C14                                                                     *)
(***************************************************************************)
\* The save of the finished single call failed: the provider returned a
\* result, save_to_mongodb was called, and the collection did not grow.
WriteFailed(i) ==
  /\ configured
  /\ pc[i] = "done"
  /\ writes[i] = 1
  /\ cache = cache0

\* C14: when the save after a successful provider request fails, the call
\* still returns that request's result, not an error string; the request was
\* the last one, and the call slept only after the failures before it.
C14_WriteFailureNotFatal ==
  bpc = "single" =>
    \A i \in Idx :
      WriteFailed(i) =>
        LET h == hist[i]
        IN  /\ h # <<>>
            /\ h[Len(h)] # "fail"
            /\ res[i] = [id |-> TranscriptId(transcript_data_list[i]),
                         val |-> OutcomeValue(h[Len(h)], i, Len(h))]
            /\ ~IsErrorString(res[i].val)
            /\ provider_calls = Len(h)
            /\ Len(sleeps[i]) = Len(h) - 1
            /\ \A k \in 1..(Len(h) - 1) : h[k] = "fail"

\* The provider failed once, then returned a text whose save failed.
C14_Witness ==
  /\ bpc = "single"
  /\ WriteFailed(1)
  /\ hist[1] = <<"fail", "text">>
  /\ res[1].val = Str(Text(1, 2))
  /\ sleeps[1] = <<1>>

(***************************************************************************)
(* C15                                                                     *)
(***************************************************************************)
\* The documents of c stored under the key of (r, tag), as positions of c.
EntriesFor(c, r, tag) ==
  {k \in 1..Len(c) : c[k].key = CacheKey(r.ticker, r.year, r.quarter, tag)}

\* What a get of (r, tag) that does not fail returns from collection c.
GetNow(c, r, tag) == GetFromMongodb(c, r.ticker, r.year, r.quarter, tag, FALSE)

\* C15: a get that did not fail and found entries under its key returned the
\* value of the one inserted first, never that of a later one, and a get of
\* the same key made now, whatever was inserted since, returns that value
\* again.
C15_FirstMatchWins ==
  (lastGet # <<>> /\ configured /\ ~lastGet[1].fault) =>
    LET g == lastGet[1]
        e == EntriesFor(cache, g, g.tag)
        old == {k \in e : k <= g.docs}
    IN  old # {} =>
          \E k \in old : /\ \A m \in e : k <= m
                          /\ g.ret = cache[k].val
                          /\ GetNow(cache, g, g.tag) = g.ret

\* Two entries with different values under one key, and a get of that key
\* made when both were there.
C15_Witness ==
  /\ Len(cache) = 2
  /\ cache[1].key = cache[2].key
  /\ cache[1].val # cache[2].val
  /\ lastGet # <<>>
  /\ lastGet[1].docs = 2
  /\ ~lastGet[1].fault
  /\ CacheKey(lastGet[1].ticker, lastGet[1].year, lastGet[1].quarter, lastGet[1].tag)
       = cache[1].key
  /\ lastGet[1].ret = cache[1].val

(***************************************************************************)
(* C16                                                                     *)
(***************************************************************************)
\* The record a document was saved for.
SavedFor(d) == [ticker |-> d.by[1], year |-> d.by[2], quarter |-> d.by[3]]

\* C16: in a batch on an empty collection, two documents under one cache key
\* were inserted by two calls for the same transcript and kind, each of which
\* got nothing usable from its lookup, sent a provider request, and holds the
\* value it inserted.  C16_Witness is such a state, with two different values.
C16_DuplicatesFromTwoMisses ==
  \A k, m \in 1..Len(cache) :
    (k < m /\ cache[k].key = cache[m].key) =>
      /\ SameStorage(SavedFor(cache[k]), SavedFor(cache[m]))
      /\ cache[k].by[4] = cache[m].by[4]
      /\ \E i, j \in Idx :
           /\ i # j
           /\ pc[i] = "done" /\ pc[j] = "done"
           /\ res[i].val = cache[k].val /\ res[j].val = cache[m].val
           /\ ~Truthy(seen[i]) /\ ~Truthy(seen[j])
           /\ Calls(i) >= 1 /\ Calls(j) >= 1
           /\ KeyOf(i) = cache[k].key /\ KeyOf(j) = cache[m].key

\* Two workers analysed the same record: both lookups returned None, both
\* provider requests returned a text, both texts were inserted under the one
\* key, and the two calls returned different values.
C16_Witness ==
  /\ bpc = "returned"
  /\ n_jobs = 2
  /\ Len(transcript_data_list) = 2
  /\ transcript_data_list[1] = transcript_data_list[2]
  /\ seen = <<None, None>>
  /\ hist = <<(<<"text">>), (<<"text">>)>>
  /\ Len(cache) = 2
  /\ cache[1].key = cache[2].key
  /\ cache[1].val # cache[2].val
  /\ res[1].val # res[2].val
  /\ {res[1].val, res[2].val} = {cache[1].val, cache[2].val}

(***************************************************************************)
(* C17                                                                     *)
(***************************************************************************)
\* C17 as stated: with either backend, a sentiment output that lacks a
\* required field is neither returned as a result nor written to the cache.
C17_MissingFieldRejected ==
  /\ \A i \in Idx :
       (pc[i] = "done" /\ res[i].val.t = "dict") =>
         SentimentFields \subseteq DOMAIN res[i].val.d
  /\ \A k \in 1..Len(cache) :
       cache[k].val.t = "dict" => SentimentFields \subseteq DOMAIN cache[k].val.d

(***************************************************************************)
(* C18                                                                     *)
(***************************************************************************)
\* C18 as stated: every sentiment result that is not an error string has a
\* sentiment_score within [-1.0, 1.0] (-10..10 in tenths) and a non-empty
\* key_sentiment_indicators.
C18_ScoreAndIndicatorsValid ==
  \A i \in Idx :
    (pc[i] = "done" /\ res[i].val.t = "dict"
       /\ {"sentiment_score", "key_sentiment_indicators"} \subseteq DOMAIN res[i].val.d) =>
      /\ res[i].val.d["sentiment_score"] \in -10..10
      /\ res[i].val.d["key_sentiment_indicators"] # <<>>

(***************************************************************************)
(* C19                                                                     *)
(***************************************************************************)
\* C19 as stated: when the mapping a consumer got holds an error string, the
\* consumer does not fail as a whole, and what it shows for that transcript
\* still begins with "ERROR:".
C19_SentinelRecognisable ==
  response # <<>> =>
    LET r == response[1]
    IN  \A id \in DOMAIN r.got :
          IsErrorString(r.got[id]) =>
            /\ ~r.failed
            /\ id \in DOMAIN r.shown
            /\ IsErrorString(r.shown[id])

(***************************************************************************)
(* C20                                                                     *)
(***************************************************************************)
\* The records of the get_transcript calls of q that succeeded, in order.
RECURSIVE Fetched(_, _)
Fetched(q, ticker) ==
  IF q = <<>> THEN <<>>
  ELSE (IF Head(q).success
          THEN <<[ticker |-> ticker, year |-> Head(q).year, quarter |-> Head(q).quarter]>>
          ELSE <<>>) \o Fetched(Tail(q), ticker)

\* C20: get_last_n_quarters(ticker, n) calls get_transcript at most 2n times
\* and not again once n transcripts are found; its results are the records
\* of the calls that succeeded, at most n, none for a call that failed; with
\* n = 0 it makes no call and returns the empty list.
C20_FetchBounded ==
  fpc # "idle" =>
    /\ attempts = Len(log)
    /\ attempts <= 2 * f_n
    /\ quarters_found = Len(results)
    /\ Len(results) <= f_n
    /\ results = Fetched(log, f_ticker)
    /\ log # <<>> => Len(Fetched(SubSeq(log, 1, Len(log) - 1), f_ticker)) < f_n
    /\ f_n = 0 => (log = <<>> /\ results = <<>>)

\* A call with n = 2 that used its four attempts and found one transcript.
C20_Witness ==
  /\ fpc = "returned"
  /\ f_n = 2
  /\ attempts = 4
  /\ Len(results) = 1
  /\ log[2].success
  /\ results[1] = [ticker |-> BRK_hyp, year |-> log[2].year, quarter |-> log[2].quarter]

(***************************************************************************)
(* C21                                                                     *)
(***************************************************************************)
\* Quarters counted from year 0: consecutive calendar quarters differ by one.
QuarterIndex(year, quarter) == year * 4 + (quarter - 1)

\* C21: the k-th attempt of get_last_n_quarters (k = 1, 2, ...) asks for the
\* calendar quarter k - 1 quarters before the current one: its quarter is in
\* 1..4 and its year is one less for every wrap below Q1.
C21_WalksBackward ==
  \A k \in 1..Len(log) :
    /\ log[k].quarter \in 1..4
    /\ QuarterIndex(log[k].year, log[k].quarter)
         = QuarterIndex(now.year, now.quarter) - (k - 1)

\* A call made in Q1 whose second attempt asked for Q4 of the year before.
C21_Witness ==
  /\ now.quarter = 1
  /\ Len(log) >= 2
  /\ log[1].quarter = 1 /\ log[1].year = now.year
  /\ log[2].quarter = 4 /\ log[2].year = now.year - 1

(***************************************************************************)
(* C22                                                                     *)
(***************************************************************************)
\* The call for list item i has gone through its cache lookup.
Worked(i) == pc[i] \notin {"queued", "started"}

\* C22 as stated: without a provider key or client an analysis request is
\* refused before any work on a transcript: no call of
\* analyze_single_transcript gets to its cache lookup, no provider request
\* is issued and no mapping with an entry is returned.
C22_AbsentProviderRefused ==
  ~provider =>
    /\ \A i \in Idx : ~Worked(i)
    /\ provider_calls = 0
    /\ DOMAIN mapping = {}

\* The part of C22 that the dashboard's check of "analyzer is None" gives.
DashboardRefuses == backend = "gemini" => C22_AbsentProviderRefused

(***************************************************************************)
(* C23                                                                     *)
(***************************************************************************)
\* The last request was answered by the sentiment endpoint with a body.
SentimentBody ==
  /\ response # <<>>
  /\ response[1].consumer = "api"
  /\ response[1].kind = "sentiment"
  /\ ~response[1].failed

\* C23: the body of a sentiment response has the transcript keys of the
\* batch mapping, and each of its values is the record of the mapping cut
\* down to the five chosen fields, with their values unchanged.
C23_SentimentFiltered ==
  SentimentBody =>
    LET r == response[1]
    IN  /\ DOMAIN r.shown = DOMAIN r.got
        /\ \A id \in DOMAIN r.shown :
              /\ DOMAIN r.shown[id].d \subseteq
                   {"sentiment_score", "sentiment_explanation", "analyst_reaction_score",
                    "analyst_reaction_explanation", "key_sentiment_indicators"}
              /\ \A k \in DOMAIN r.shown[id].d :
                    k \in DOMAIN r.got[id].d /\ r.shown[id].d[k] = r.got[id].d[k]

\* A body for two transcripts whose records had fifteen fields each.
C23_Witness ==
  /\ SentimentBody
  /\ Cardinality(DOMAIN response[1].shown) = 2
  /\ \A id \in DOMAIN response[1].shown :
        /\ Cardinality(DOMAIN response[1].got[id].d) = 15
        /\ Cardinality(DOMAIN response[1].shown[id].d) = 5

(***************************************************************************)
(* C24                                                                     *)
(***************************************************************************)
\* The last request was a call of get_company_name.
NameAsked == response # <<>> /\ response[1].kind = "name"

\* The string the call returned.
NameGot == response[1].shown[response[1].data].s

\* C24 as stated: the name of the table when the ticker given is a symbol of
\* the table, the ticker as given otherwise.
C24_NameOrTickerGiven ==
  NameAsked =>
    LET t == response[1].data
    IN  /\ ~response[1].failed
        /\ NameGot = IF t \in DOMAIN symbol_to_name THEN symbol_to_name[t] ELSE t

\* C24: get_company_name of company_utils.py answers for the ticker in upper
\* case: the name the table has for it, or else the upper-cased ticker.  The
\* dashboard's get_company_name answers for the ticker as given.  Neither
\* fails for a ticker the table lacks.
C24_NameOrEcho ==
  NameAsked =>
    LET t == response[1].data
        key == IF response[1].consumer = "api" THEN Upper(t) ELSE t
    IN  /\ ~response[1].failed
        /\ key \in DOMAIN symbol_to_name => NameGot = symbol_to_name[key]
        /\ key \notin DOMAIN symbol_to_name => NameGot = key

\* company_utils.get_company_name("z") returned "Z".
C24_Witness ==
  /\ NameAsked
  /\ response[1].consumer = "api"
  /\ response[1].data = <<"z">>
  /\ NameGot = <<"Z">>

(***************************************************************************)
(* C25                                                                     *)
(***************************************************************************)
\* C25: one call of analyze_single_transcript calls save_to_mongodb at most
\* once, and only with the result of a provider request that succeeded, as
\* its last step: the collection keeps the documents it had and gains at most
\* that one, which is not an error string.  A call served from the cache and
\* a call that ends with the error string save nothing.
C25_WriteOnlyAfterSuccess ==
  bpc = "single" =>
    \A i \in Idx :
      LET h == hist[i]
      IN  /\ writes[i] <= 1
          /\ Len(cache) <= Len(cache0) + writes[i]
          /\ SubSeq(cache, 1, Len(cache0)) = cache0
          /\ writes[i] = 1 => (pc[i] = "done" /\ h # <<>> /\ h[Len(h)] # "fail")
          /\ (configured /\ Truthy(seen[i])) => (writes[i] = 0 /\ h = <<>>)
          /\ (pc[i] = "done" /\ IsErrorString(res[i].val)) => writes[i] = 0
          /\ \A k \in (Len(cache0) + 1)..Len(cache) :
                /\ ~IsErrorString(cache[k].val)
                /\ cache[k].val = OutcomeValue(h[Len(h)], i, Len(h))
                /\ cache[k].val = res[i].val

\* The first request failed and the second returned a text, which is the
\* one document the call added.
C25_Witness ==
  /\ bpc = "single"
  /\ configured
  /\ pc[1] = "done"
  /\ hist[1] = <<"fail", "text">>
  /\ writes[1] = 1
  /\ Len(cache) = Len(cache0) + 1
  /\ cache[Len(cache)].val = Str(Text(1, 2))

(***************************************************************************)
(* C26                                                                     *)
(***************************************************************************)
\* An earlier analysis of the same transcript and kind returned a result,
\* not the error string, and the collection worked for it: its lookup
\* returned what was stored and its save, if it made one, added a document.
FirstSucceeded ==
  /\ first # <<>>
  /\ configured
  /\ ~IsErrorString(first[1].val)
  /\ LET k == FindOne(first[1].before, KeyOf(1))
     IN  first[1].seen = IF k = 0 THEN None ELSE first[1].before[k].val
  /\ Len(cache0) = Len(first[1].before) + first[1].writes

\* The later analysis is past its lookup, which returned what was stored.
LaterLookedUp == pc[1] # "started" /\ seen[1] = StoredAtCall(1)

\* C26 as stated: the later analysis returns the value of the earlier one
\* from its lookup, with no provider request and no new document.
C26_Idempotent ==
  (FirstSucceeded /\ LaterLookedUp) =>
    /\ pc[1] = "done"
    /\ res[1].val = first[1].val
    /\ hist[1] = <<>>
    /\ cache = cache0

\* The same holds when the value of the earlier analysis was not empty.
IdempotentUnlessEmpty ==
  (FirstSucceeded /\ LaterLookedUp /\ Truthy(first[1].val)) =>
    /\ pc[1] = "done"
    /\ res[1].val = first[1].val
    /\ hist[1] = <<>>
    /\ cache = cache0

(***************************************************************************)
(* C27                                                                     *)
(***************************************************************************)
\* C27: no step of an analysis removes or changes a document of the
\* collection: the collection after the step begins with the collection
\* before it, and a key under which find_one found a document before the
\* step finds the same document after it.
C27_AppendOnly ==
  [][ /\ Len(cache') >= Len(cache)
      /\ SubSeq(cache', 1, Len(cache)) = cache
      /\ \A k \in 1..Len(cache) :
            FindOne(cache, cache[k].key) = FindOne(cache', cache[k].key) ]_vars

\* Two analyses have each saved a result under the same key: the document of
\* the first is still there, before that of the second.
C27_Witness ==
  /\ first # <<>>
  /\ first[1].writes = 1
  /\ writes[1] = 1
  /\ Len(cache) = 2
  /\ cache[1].key = cache[2].key
  /\ cache[1].val = first[1].val
  /\ cache[2].val = res[1].val
  /\ cache[2].val # cache[1].val

(***************************************************************************)
(* C28                                                                     *)
(***************************************************************************)
\* The tag the three kinds are to have.
KindTag(pt) ==
  CASE pt = "summary" -> <<"SUMMARY">>
    [] pt = "topics" -> <<"TOPIC">>
    [] pt = "sentiment" -> <<"SENTIMENT">>

\* C28: summary, topics and sentiment have the tags SUMMARY, TOPIC and
\* SENTIMENT, three different ones, and what the lookup of an analysis
\* returns is the value of a document that was saved with the tag of the
\* kind being analysed, never one saved with the tag of another kind.
C28_KindsKeptApart ==
  /\ \A pt \in {"summary", "topics", "sentiment"} : MongoTag(pt) = KindTag(pt)
  /\ Cardinality({MongoTag(pt) : pt \in {"summary", "topics", "sentiment"}}) = 3
  /\ (bpc = "single" /\ configured /\ ValidPromptType(prompt_type)) =>
       \A i \in Idx :
         (pc[i] # "started" /\ seen[i] # None) =>
           LET k == FindOne(cache0, KeyOf(i))
           IN  /\ k # 0
               /\ cache0[k].by[4] = KindTag(prompt_type)
               /\ cache0[k].val = seen[i]
               /\ \A m \in 1..Len(cache0) :
                     cache0[m].by[4] # KindTag(prompt_type) => cache0[m].key # cache0[k].key

\* The collection holds a summary and then a sentiment result of one
\* transcript; a sentiment analysis of it was served the second document.
C28_Witness ==
  /\ bpc = "single"
  /\ configured
  /\ prompt_type = "sentiment"
  /\ Len(cache0) = 2
  /\ cache0[1].by[4] = <<"SUMMARY">>
  /\ cache0[2].by[4] = <<"SENTIMENT">>
  /\ \A m \in 1..2 : SameStorage(SavedFor(cache0[m]), transcript_data_list[1])
  /\ Truthy(cache0[1].val)
  /\ pc[1] = "done"
  /\ hist[1] = <<>>
  /\ FindOne(cache0, KeyOf(1)) = 2
  /\ res[1].val = cache0[2].val

(***************************************************************************)
(* C29                                                                     *)
(***************************************************************************)
\* The calls a worker thread is running, asleep or not.
Held == {i \in Idx : pc[i] \in {"started", "calling", "sleeping"}}

\* The next item of the list that no worker has taken.
NextQueued(j) == pc[j] = "queued" /\ \A k \in Idx : k < j => pc[k] # "queued"

\* C29: a worker keeps its transcript from the start of the call to its
\* return, asleep or not, so never more than n_jobs calls are held; and while
\* a call sleeps, every other call a worker holds can take its next step
\* (its lookup, the outcome of its request, the end of its own sleep, and
\* with that its return), and an idle worker can take the next item.
C29_SleepBlocksOnlySleeper ==
  bpc = "running" =>
    /\ Cardinality(Held) <= n_jobs
    /\ \A i \in Idx :
         pc[i] = "sleeping" =>
           \A j \in Idx \ {i} :
             /\ pc[j] = "started" => ENABLED Lookup(j)
             /\ pc[j] = "calling" => (ENABLED ProviderSucceeds(j) /\ ENABLED ProviderFails(j))
             /\ pc[j] = "sleeping" => ENABLED Wake(j)
             /\ (NextQueued(j) /\ Cardinality(Held) < n_jobs
                   /\ \A k \in Idx : pc[k] # "raised") => ENABLED Dispatch(j)

\* Two workers: the call of the first item is asleep after a failure while
\* the call of the second item, started later, has returned its text.
C29_Witness ==
  /\ bpc = "running"
  /\ n_jobs = 2
  /\ Len(pc) = 2
  /\ pc[1] = "sleeping"
  /\ sleeps[1] = <<1>>
  /\ pc[2] = "done"
  /\ hist[2] = <<"text">>
  /\ ~SameStorage(transcript_data_list[1], transcript_data_list[2])

(***************************************************************************)
(* C30                                                                     *)
(***************************************************************************)
\* C30: analyze_transcripts has returned only when every call of the batch
\* has returned, and then the mapping is the dict of all their tuples; until
\* then, and when the batch raises, there is no mapping.
C30_MappingAfterAllDone ==
  /\ bpc \in {"running", "raised"} => mapping = EmptyMap
  /\ bpc = "returned" =>
       /\ \A i \in Idx : pc[i] = "done" /\ res[i] # NoRes
       /\ DOMAIN mapping = {TranscriptId(transcript_data_list[i]) : i \in Idx}
       /\ \A i \in Idx : \E j \in Idx : res[j].id = res[i].id /\ mapping[res[i].id] = res[j].val

\* A batch of two returned its mapping of two entries; the call of the first
\* item had slept twice and was the last to finish.
C30_Witness ==
  /\ bpc = "returned"
  /\ Len(pc) = 2
  /\ Cardinality(DOMAIN mapping) = 2
  /\ Len(sleeps[1]) = 2
  /\ sleeps[2] = <<>>
  /\ hist[2] = <<"text">>

(***************************************************************************)
(* C31                                                                     *)
(***************************************************************************)
\* Every call of the batch has returned a result or the error string, after
\* at most three provider requests, and analyze_transcripts has returned.
BatchCompleted ==
  /\ bpc = "returned"
  /\ \A i \in Idx : pc[i] = "done" /\ res[i] # NoRes /\ Calls(i) <= 3

\* C31 as stated: every batch that was started completes.
C31_EveryBatchCompletes == (bpc = "running") ~> BatchCompleted

\* C31: a batch of a recognised kind completes; a batch of any kind ends,
\* by returning or by raising.
C31_BatchTerminates ==
  /\ (bpc = "running" /\ ValidPromptType(prompt_type)) ~> BatchCompleted
  /\ (bpc = "running") ~> (bpc \in {"returned", "raised"})

\* A batch of two completed after a call had made its three requests.
C31_Witness ==
  /\ BatchCompleted
  /\ Len(pc) = 2
  /\ \E i \in Idx : Calls(i) = 3
  /\ \E i \in Idx : Calls(i) = 1

(***************************************************************************)
(* C32                                                                     *)
(***************************************************************************)
\* Whether the k-th provider request of call i ended in a result, and the
\* result: a text, or what the module made of the JSON object.
AttemptOk(i, k) ==
  LET o == hist[i][k]
  IN  /\ o # "fail"
      /\ o \in SentimentOutcomes => ParseSentiment(backend, SentimentOutput(o)).ok

AttemptValue(i, k) ==
  LET o == hist[i][k]
  IN  IF o \in SentimentOutcomes THEN ParseSentiment(backend, SentimentOutput(o)).val
      ELSE OutcomeValue(o, i, k)

\* C32: what a call does is fixed by the stored documents and by which of
\* its requests ended in a result, in the same way for analyzer.py and
\* analyzer_gemini.py: one lookup; on a usable value that value and nothing
\* else; otherwise requests until the first result, at most three, with
\* sleeps of 1 and 2 seconds between them; one save of the result when a
\* collection is configured; the result, or the error string of the third
\* failure, returned under the transcript id.
C32_SameOrchestration ==
  bpc = "single" =>
    \A i \in Idx :
      LET h == hist[i]
          n == Len(h)
          td == transcript_data_list[i]
      IN  pc[i] # "started" =>
            /\ n <= 3
            /\ \A k \in 1..(n - 1) : ~AttemptOk(i, k)
            /\ seen[i] \in {StoredAtCall(i), None}
            /\ (configured /\ Truthy(seen[i])) =>
                 (pc[i] = "done" /\ n = 0 /\ res[i] = [id |-> TranscriptId(td), val |-> seen[i]])
            /\ sleeps[i] = SubSeq(<<1, 2>>, 1,
                                  IF pc[i] = "done" /\ n > 0 THEN n - 1
                                  ELSE IF pc[i] = "sleeping" THEN n
                                  ELSE IF pc[i] = "calling" THEN n ELSE 0)
            /\ pc[i] = "sleeping" => ~AttemptOk(i, n)
            /\ pc[i] = "raised" => (~ValidPromptType(prompt_type) /\ n = 0)
            /\ (pc[i] = "done" /\ n > 0) =>
                 IF AttemptOk(i, n)
                   THEN /\ res[i] = [id |-> TranscriptId(td), val |-> AttemptValue(i, n)]
                        /\ writes[i] = IF configured THEN 1 ELSE 0
                   ELSE /\ n = 3
                        /\ res[i] = [id |-> TranscriptId(td), val |-> Sentinel(Msg(3))]
                        /\ writes[i] = 0
            /\ pc[i] # "done" => writes[i] = 0
            /\ Len(cache) <= Len(cache0) + writes[i]
            /\ SubSeq(cache, 1, Len(cache0)) = cache0

\* An analyzer of analyzer_gemini.py: its first sentiment call failed once,
\* slept a second, got the full record and saved it; its second call was
\* served that record from the collection.
C32_Witness ==
  /\ backend = "gemini"
  /\ configured
  /\ first # <<>>
  /\ first[1].hist = <<"fail", "full">>
  /\ first[1].val = Dict(FullOutput)
  /\ pc = <<"done">>
  /\ hist[1] = <<>>
  /\ res[1].val = Dict(FullOutput)

(***************************************************************************)
(* C33                                                                     *)
(***************************************************************************)
\* C33: from the call of analyze_transcripts on, no step of the batch or of
\* one of its analyses changes the list it was given or a record of it.
C33_RecordsReadOnly ==
  [][bpc # "idle" => transcript_data_list' = transcript_data_list]_vars

\* A returned batch in which one call saved a text after two failures and
\* the other was served it from the collection, under the key with the
\* hyphen: the first record still carries its ticker with the period.
C33_Witness ==
  /\ bpc = "returned"
  /\ Len(pc) = 2
  /\ transcript_data_list[1].ticker = BRK_dot
  /\ \E i \in Idx : hist[i] = <<"fail", "fail", "text">>
  /\ \E i \in Idx : hist[i] = <<>> /\ Truthy(seen[i])
  /\ \E k \in 1..Len(cache) : cache[k].by[1] = BRK_dot

(***************************************************************************)
(* C34                                                                     *)
(***************************************************************************)
\* The first request of call i that returned a result; 0 when none did.
FirstSuccess(i) ==
  LET ok == {k \in 1..Len(hist[i]) : hist[i][k] # "fail"}
  IN  IF ok = {} THEN 0 ELSE CHOOSE k \in ok : \A m \in ok : k <= m

\* C34: a call that went to the provider makes no request after one that
\* returned a result: when it has returned, its requests number the index
\* of the first success, 1, 2 or 3, or 3 when all failed, and the error
\* string then carries the message of the third failure.
C34_StopsAtFirstSuccess ==
  bpc = "single" =>
    \A i \in Idx :
      LET h == hist[i]
      IN  /\ \A k \in 1..(Len(h) - 1) : h[k] = "fail"
          /\ provider_calls = Calls(i)
          /\ (pc[i] = "done" /\ h # <<>>) =>
               IF FirstSuccess(i) # 0
                 THEN /\ Calls(i) = FirstSuccess(i)
                      /\ Calls(i) \in 1..3
                      /\ ~IsErrorString(res[i].val)
                 ELSE /\ Calls(i) = 3
                      /\ res[i].val = Str(<<"E", "R", "R", "O", "R", ":", " ", "e", "3">>)

\* A call that returned the text of its second request, with no third one.
C34_Witness ==
  /\ bpc = "single"
  /\ pc[1] = "done"
  /\ hist[1] = <<"fail", "text">>
  /\ provider_calls = 2
  /\ FirstSuccess(1) = 2

(***************************************************************************)
(* C35                                                                     *)
(***************************************************************************)
\* Items i and j of the list are the BRK.B and the BRK-B record of one
\* quarter, in either order.
PeriodHyphenPair(i, j) ==
  /\ {transcript_data_list[i].ticker, transcript_data_list[j].ticker} = {BRK_dot, BRK_hyp}
  /\ transcript_data_list[i].year = transcript_data_list[j].year
  /\ transcript_data_list[i].quarter = transcript_data_list[j].quarter

\* The lookup of call i is the step being taken; the collection, which had
\* nothing under the key when the batch began, now holds the result that the
\* call for the other spelling saved, and find_one returns it.
LooksUpOthersEntry(i, j) ==
  LET k == FindOne(cache, KeyOf(i))
  IN  /\ bpc = "running"
      /\ configured
      /\ PeriodHyphenPair(i, j)
      /\ FindOne(cache0, KeyOf(i)) = 0
      /\ pc[j] = "done"
      /\ pc[i] = "started"
      /\ pc'[i] # "started"
      /\ k # 0
      /\ cache[k].by[1] = transcript_data_list[j].ticker
      /\ seen'[i] = cache[k].val

\* The ids of the pair differ, the keys agree, and call i returns the stored
\* value under its own id.
AnsweredFromOther(i, j) ==
  /\ TranscriptId(transcript_data_list[i]) # TranscriptId(transcript_data_list[j])
  /\ KeyOf(i) = KeyOf(j)
  /\ pc'[i] = "done"
  /\ res'[i] = [id  |-> TranscriptId(transcript_data_list[i]),
                val |-> cache[FindOne(cache, KeyOf(i))].val]

\* C35 as stated: the BRK.B and the BRK-B record of one quarter have two
\* ids and one key, and once the result of one is in the collection the
\* lookup of the other returns it as the result of the call.
C35_OtherSpellingServed ==
  [][ \A i \in Idx : \A j \in Idx :
        LooksUpOthersEntry(i, j) => AnsweredFromOther(i, j) ]_vars

\* The same holds when the stored result is not empty.
OtherSpellingServedUnlessEmpty ==
  [][ \A i \in Idx : \A j \in Idx :
        (LooksUpOthersEntry(i, j) /\ Truthy(cache[FindOne(cache, KeyOf(i))].val))
          => AnsweredFromOther(i, j) ]_vars

(***************************************************************************)
(* C36                                                                     *)
(***************************************************************************)
\* The call of an unrecognised kind is past its lookup, made under the tag
\* UNKNOWN, and the collection held a document under the key whose value the
\* lookup returned.
UnknownKindFound ==
  LET k == FindOne(cache0, KeyOf(1))
  IN  /\ configured
      /\ k # 0
      /\ seen[1] = cache0[k].val

\* C36 as stated: a call of an unrecognised kind looks up the cache under
\* the tag UNKNOWN first; when a document exists under the key the call
\* returns its value and does not raise, and otherwise it raises, with no
\* provider request and nothing written.
C36_UnknownKindHitOrRaise ==
  (bpc = "single" /\ ~ValidPromptType(prompt_type) /\ pc[1] # "started") =>
    /\ MongoTag(prompt_type) = <<"UNKNOWN">>
    /\ reads[1] = (IF configured THEN 1 ELSE 0)
    /\ Calls(1) = 0
    /\ cache = cache0
    /\ IF UnknownKindFound
         THEN pc[1] = "done" /\ res[1].val = StoredAtCall(1)
         ELSE pc[1] = "raised"

\* The same with the document's value taken into account: an empty value is
\* treated as a miss.
UnknownKindHitUnlessEmpty ==
  (bpc = "single" /\ ~ValidPromptType(prompt_type) /\ pc[1] # "started") =>
    /\ reads[1] = (IF configured THEN 1 ELSE 0)
    /\ Calls(1) = 0
    /\ cache = cache0
    /\ IF UnknownKindFound /\ Truthy(StoredAtCall(1))
         THEN pc[1] = "done" /\ res[1].val = StoredAtCall(1)
         ELSE pc[1] = "raised"

\* A batch in which a call raised returns no mapping.
RaisedBatchReturnsNothing ==
  /\ ((\E i \in Idx : pc[i] = "raised") => bpc # "returned")
  /\ (bpc = "raised" => DOMAIN mapping = {})

(***************************************************************************)
(* C37                                                                     *)
(***************************************************************************)
\* The last direct get_transcript call found a file for its quarter that it
\* could open and parse, and was not told to refresh.
ServedFromFile ==
  /\ lastTranscript # <<>>
  /\ lastTranscript[1].had \in {"api", "other"}
  /\ lastTranscript[1].io
  /\ ~lastTranscript[1].force_refresh

\* C37: a get_transcript call that finds a readable file and is not told to
\* refresh returns (True, what the file holds) and sends no request; every
\* other call sends one; a request answered with a non-empty transcript
\* returns (True, the response) and leaves it in the file of the quarter; a
\* request that fails, times out or brings an empty transcript returns
\* (False, error record) and leaves the file as it was, absent or not.
C37_TranscriptFileCache ==
  lastTranscript # <<>> =>
    LET L == lastTranscript[1]
    IN  /\ L.api <=> ~ServedFromFile
        /\ ServedFromFile =>
             L.success /\ L.data = L.had /\ L.has = L.had
        /\ (L.api /\ L.outcome = "ok") =>
             L.success /\ L.data = "api" /\ L.has = "api"
        /\ (L.api /\ L.outcome = "fail") =>
             ~L.success /\ L.data = "error" /\ L.has = L.had

\* A call was answered from a file that holds something else than the API
\* would have returned.
C37_Witness ==
  /\ ServedFromFile
  /\ lastTranscript[1].had = "other"
  /\ lastTranscript[1].outcome = "ok"
  /\ lastTranscript[1].success
  /\ lastTranscript[1].data = "other"
  /\ ~lastTranscript[1].api

(***************************************************************************)
(* C38                                                                     *)
(***************************************************************************)
\* The last direct get_transcript call found a file for its quarter that it
\* could not open or not parse, and was not told to refresh.
FileUnusable ==
  /\ lastTranscript # <<>>
  /\ ~lastTranscript[1].force_refresh
  /\ \/ lastTranscript[1].had = "corrupt"
     \/ lastTranscript[1].had # "none" /\ ~lastTranscript[1].io

\* C38: a get_transcript call that finds a file it cannot open or parse
\* returns all the same: it sends the request, and returns (True, the
\* response) with the response written over the file when the request
\* succeeds, (False, error record) with the file untouched when it does not.
C38_CorruptFileFallsThrough ==
  FileUnusable =>
    LET L == lastTranscript[1]
    IN  /\ L.api
        /\ L.outcome = "ok" => L.success /\ L.data = "api" /\ L.has = "api"
        /\ L.outcome = "fail" => ~L.success /\ L.data = "error" /\ L.has = L.had

\* A corrupt file was found and overwritten with the response.
C38_Witness ==
  /\ FileUnusable
  /\ lastTranscript[1].had = "corrupt"
  /\ lastTranscript[1].io
  /\ lastTranscript[1].success
  /\ lastTranscript[1].has = "api"
  /\ content[Filename(Upper(lastTranscript[1].ticker), lastTranscript[1].year,
                      lastTranscript[1].quarter)] = "api"

(***************************************************************************)
(* C39                                                                     *)
(***************************************************************************)
\* The get_transcript calls of the current get_last_n_quarters call that
\* returned a transcript, in the order they were made.
Successes == SelectSeq(log, LAMBDA e : e.success)

\* C39: the records of get_last_n_quarters are, in order, the quarters
\* whose get_transcript call succeeded; each carries the upper-cased ticker
\* of the call; every record is of a strictly earlier quarter than the
\* records before it, so the quarters, and the ids built from ticker, year
\* and quarter, are pairwise distinct.
C39_RecordsDecreaseDistinct ==
  fpc \in {"loop", "returned"} =>
    /\ f_ticker = Upper(f_ticker)
    /\ Len(results) = Len(Successes)
    /\ \A k \in 1..Len(results) :
         /\ results[k].ticker = f_ticker
         /\ results[k].year = Successes[k].year
         /\ results[k].quarter = Successes[k].quarter
         /\ results[k].quarter \in 1..4
    /\ \A k \in 1..Len(results) : \A m \in 1..Len(results) :
         k < m =>
           /\ QuarterIndex(results[k].year, results[k].quarter)
                > QuarterIndex(results[m].year, results[m].quarter)
           /\ TranscriptId(results[k]) # TranscriptId(results[m])

\* Two records are returned for a ticker given in lower case, the second of
\* the year before, after a quarter in between had no transcript.
C39_Witness ==
  /\ fpc = "returned"
  /\ f_ticker = BRK_hyp
  /\ Len(results) = 2
  /\ Len(log) = 3
  /\ results[1].year = 2024
  /\ results[2].year = 2023
  /\ ~log[2].success

(***************************************************************************)
(* C40                                                                     *)
(***************************************************************************)
\* The step is a press of one of Steps 2-4 that calls analyze_transcripts.
Invokes == bpc = "idle" /\ bpc' # "idle"

\* The step is a "Step 1: Fetch Data" that showed an error: no fetcher, no
\* transcripts found, or an exception.
FetchFails ==
  /\ bpc = "idle"
  /\ bpc' = "idle"
  /\ response' # <<>>
  /\ response'[1].kind = "fetch"
  /\ response'[1].failed

\* C40: in a dashboard session analyze_transcripts is called only by a
\* press of Steps 2-4 made with an analyzer and with fetched_data not None,
\* and on that fetched_data; and a fetch that finds no transcripts or
\* raises leaves fetched_data, summaries, topics and sentiments as they were.
C40_StepsGatedOnFetch ==
  [][ /\ Invokes =>
           /\ provider
           /\ session.fetched_data # <<>>
           /\ transcript_data_list' = session.fetched_data[1]
      /\ analyses' # analyses => Invokes
      /\ FetchFails =>
           /\ session'.fetched_data = session.fetched_data
           /\ session'.summaries = session.summaries
           /\ session'.topics = session.topics
           /\ session'.sentiments = session.sentiments ]_vars

\* After a fetch and a summarisation a second fetch found nothing: the
\* fetched list and the summaries are still there.
C40_Witness ==
  /\ ninja
  /\ provider
  /\ analyses = 1
  /\ bpc = "idle"
  /\ response # <<>>
  /\ response[1].kind = "fetch"
  /\ response[1].failed
  /\ session.fetched_data # <<>>
  /\ Len(session.fetched_data[1]) = 2
  /\ DOMAIN session.summaries # {}
  /\ session.timing_data = {}

====
